---- MODULE Spec2Model ----
(***************************************************************************)
(* A model of the water-sandbox SPH fluid simulation (Bevy, Rust).         *)
(*                                                                         *)
(* Numbers.  The program computes in f32.  The model computes in exact     *)
(* rational arithmetic: a number is a pair <<n, d>> in lowest terms with   *)
(* d >= 0.  d = 0 gives the IEEE specials: <<1,0>> is +inf, <<-1,0>> is    *)
(* -inf and <<0,0>> is NaN (every comparison with NaN is FALSE, as in      *)
(* IEEE).  Rounding of f32 is not modelled.  The model checker's integers  *)
(* are 32 bits wide, so std::f32::consts::PI is the rational 25/8, whose   *)
(* powers keep the numerators and denominators of the forces within that   *)
(* width; no formula checked here depends on the value of PI beyond its    *)
(* being positive.                                                         *)
(***************************************************************************)
EXTENDS Integers, Sequences, FiniteSets, TLC

VARIABLES
    particles,   \* the FluidParticle entities, in table order: Seq of records
    props,       \* resource FluidParticleStaticProperties
    gravity,     \* resource Gravity (x, y)
    container,   \* resource FluidContainer as its extents [min, max]
    state,       \* State<GameState>
    next_state,  \* NextState<GameState>: "None" or the requested state
    commands,    \* deferred Commands not yet applied
    pc,          \* where the run is (frame phase, or step of a scenario)
    sched,       \* FixedUpdate systems already run in the tick in flight
    history,     \* ghost: what the claims observe (pass log, snapshots)
    kargs,       \* kernel scenario: [radius, distance]
    kres         \* kernel scenario: the value each kernel returned

vars == <<particles, props, gravity, container, state, next_state, commands,
          pc, sched, history, kargs, kres>>

(***************************************************************************)
(* Rational arithmetic                                                     *)
(***************************************************************************)
Abs(x) == IF x < 0 THEN -x ELSE x

RECURSIVE Euclid(_, _)
Euclid(a, b) == IF b = 0 THEN a ELSE Euclid(b, a % b)

GCD(a, b) == IF a = 0 /\ b = 0 THEN 1 ELSE Euclid(Abs(a), Abs(b))

Norm(n, d) ==
    LET g == GCD(n, d)
        s == IF d < 0 THEN -1 ELSE 1
    IN  <<s * (n \div g), s * (d \div g)>>

R(n, d) == Norm(n, d)

Zero == <<0, 1>>
One == <<1, 1>>
NaN == <<0, 0>>

RNeg(a) == <<-a[1], a[2]>>

\* The operations test the denominators first (none is ever negative), which
\* has the operands evaluated before the result is formed.
RAdd(a, b) ==
    IF a[2] < 0 \/ b[2] < 0 THEN NaN ELSE
    LET g == GCD(a[2], b[2])
    IN  Norm(a[1] * (b[2] \div g) + b[1] * (a[2] \div g), (a[2] \div g) * b[2])
RSub(a, b) == RAdd(a, RNeg(b))
RMul(a, b) ==
    IF a[2] < 0 \/ b[2] < 0 THEN NaN ELSE
    LET g1 == GCD(a[1], b[2])
        g2 == GCD(b[1], a[2])
    IN  Norm((a[1] \div g1) * (b[1] \div g2), (a[2] \div g2) * (b[2] \div g1))
RInv(a) == Norm(a[2], a[1])
RDiv(a, b) == RMul(a, RInv(b))
RLt(a, b) ==
    IF a[2] < 0 \/ b[2] < 0 THEN FALSE ELSE
    LET g == GCD(a[2], b[2])
    IN  a[1] * (b[2] \div g) < b[1] * (a[2] \div g)
RGt(a, b) == RLt(b, a)
RLe(a, b) == (RLt(a, b) \/ a = b) /\ a # NaN /\ b # NaN
RGe(a, b) == RLe(b, a)
RAbs(a) == <<Abs(a[1]), a[2]>>
IsFinite(a) == a[2] > 0

RECURSIVE RPow(_, _)
RPow(a, k) == IF k = 0 THEN One ELSE RMul(a, RPow(a, k - 1))

\* Integer square root, rounded down.
RECURSIVE Newton(_, _)
Newton(n, x) ==
    LET y == (x + n \div x) \div 2
    IN  IF y >= x THEN x ELSE Newton(n, y)

\* Newton's iteration from the power of two next above the root
ISqrt(n) ==
    IF n < 2 THEN n
    ELSE Newton(n, CHOOSE p \in {2 ^ e : e \in 1..16} : p > n \div p /\ p \div 2 <= n \div (p \div 2))

IsSquare(n) == ISqrt(n) * ISqrt(n) = n

\* Resolution of a square root that is not rational: rounded down to 1/SqrtRes.
SqrtRes == 10 * 10

\* f32::sqrt: exact where the root is rational, else rounded down to 1/SqrtRes.
RSqrt(a) ==
    IF a[2] = 0 \/ a[1] < 0 THEN (IF a = <<1, 0>> THEN a ELSE NaN)
    ELSE IF IsSquare(a[1]) /\ IsSquare(a[2]) THEN <<ISqrt(a[1]), ISqrt(a[2])>>
    ELSE Norm(ISqrt((a[1] * SqrtRes * SqrtRes) \div a[2]), SqrtRes)

PI == <<25, 8>>

(***************************************************************************)
(* Vec2                                                                    *)
(***************************************************************************)
Vec2(x, y) == [x |-> x, y |-> y]
Vec2_ZERO == Vec2(Zero, Zero)
Vec2_ONE == Vec2(One, One)
Vec2_Y == Vec2(Zero, One)
VAdd(a, b) == Vec2(RAdd(a.x, b.x), RAdd(a.y, b.y))
VSub(a, b) == Vec2(RSub(a.x, b.x), RSub(a.y, b.y))
VScale(a, k) == Vec2(RMul(a.x, k), RMul(a.y, k))
VDivS(a, k) == Vec2(RDiv(a.x, k), RDiv(a.y, k))
VNeg(a) == Vec2(RNeg(a.x), RNeg(a.y))
\* glam Vec2::distance: the length of the difference.
distance(a, b) ==
    LET d == VSub(a, b)
    IN  RSqrt(RAdd(RMul(d.x, d.x), RMul(d.y, d.y)))

(***************************************************************************)
(* smoothing.rs: the kernels                                               *)
(***************************************************************************)
DENSITY_PADDING == R(1, 100000)

\* The kernel with the distance added to the radius instead of subtracted.
smoothing_kernel_plus(radius, dist) ==
    IF RGt(dist, radius) THEN Zero
    ELSE LET volume == RDiv(R(6, 1), RMul(PI, RPow(radius, 4)))
             v == RAdd(radius, dist)
         IN  RMul(RMul(v, v), volume)

smoothing_kernel(radius, dist) ==
    IF RGt(dist, radius) THEN Zero
    ELSE LET volume == RDiv(R(6, 1), RMul(PI, RPow(radius, 4)))
             v == RSub(radius, dist)
         IN  RMul(RMul(v, v), volume)

\* The derivative kernel with the operands of its difference swapped.
smoothing_kernel_derivative_swapped(radius, dist) ==
    IF RGt(dist, radius) THEN Zero
    ELSE LET scale == RDiv(R(12, 1), RMul(PI, RPow(radius, 4)))
         IN  RMul(RSub(radius, dist), scale)

smoothing_kernel_derivative(radius, dist) ==
    IF RGt(dist, radius) THEN Zero
    ELSE LET scale == RDiv(R(12, 1), RMul(PI, RPow(radius, 4)))
         IN  RMul(RSub(dist, radius), scale)

smoothing_kernel_near(radius, dist) ==
    IF RGt(dist, radius) THEN Zero
    ELSE LET volume == RDiv(R(10, 1), RMul(PI, RPow(radius, 5)))
             v == RSub(radius, dist)
         IN  RMul(RMul(RMul(v, v), v), volume)

smoothing_kernel_derivative_near(radius, dist) ==
    IF RGt(dist, radius) THEN Zero
    ELSE LET scale == RDiv(R(30, 1), RMul(PI, RPow(radius, 5)))
             v == RSub(dist, radius)
         IN  RMul(RMul(v, v), scale)

\* The viscosity kernel with its cutoff test dropped.
smoothing_kernel_viscosity_nocut(radius, dist) ==
    LET volume == RDiv(R(4, 1), RMul(PI, RPow(radius, 8)))
        v == RSub(RMul(radius, radius), RMul(dist, dist))
    IN  RMul(RMul(RMul(v, v), v), volume)

smoothing_kernel_viscosity(radius, dist) ==
    IF RGt(dist, radius) THEN Zero
    ELSE LET volume == RDiv(R(4, 1), RMul(PI, RPow(radius, 8)))
             v == RSub(RMul(radius, radius), RMul(dist, dist))
         IN  RMul(RMul(RMul(v, v), v), volume)

(***************************************************************************)
(* fluid.rs: its own copies of four of the kernels                         *)
(***************************************************************************)
fluid_smoothing_kernel(radius, dist) ==
    IF RGt(dist, radius) THEN Zero
    ELSE LET volume == RDiv(R(6, 1), RMul(PI, RPow(radius, 4)))
             v == RSub(radius, dist)
         IN  RMul(RMul(v, v), volume)

fluid_smoothing_kernel_near(radius, dist) ==
    IF RGt(dist, radius) THEN Zero
    ELSE LET volume == RDiv(R(10, 1), RMul(PI, RPow(radius, 5)))
             v == RSub(radius, dist)
         IN  RMul(RMul(RMul(v, v), v), volume)

\* The derivative kernel measuring the distance against radius * radius.
fluid_smoothing_kernel_derivative_squared(radius, dist) ==
    IF RGt(dist, radius) THEN Zero
    ELSE LET scale == RDiv(R(12, 1), RMul(PI, RPow(radius, 4)))
         IN  RMul(RSub(dist, RMul(radius, radius)), scale)

fluid_smoothing_kernel_derivative(radius, dist) ==
    IF RGt(dist, radius) THEN Zero
    ELSE LET scale == RDiv(R(12, 1), RMul(PI, RPow(radius, 4)))
         IN  RMul(RSub(dist, radius), scale)

fluid_smoothing_kernel_derivative_near(radius, dist) ==
    IF RGt(dist, radius) THEN Zero
    ELSE LET scale == RDiv(R(30, 1), RMul(PI, RPow(radius, 5)))
             v == RSub(dist, radius)
         IN  RMul(RMul(v, v), scale)

convert_density_to_pressure(density, target_density, pressure_scalar) ==
    LET density_error == RSub(density, target_density)
    IN  RMul(density_error, pressure_scalar)

convert_near_density_to_near_pressure(near_density, near_pressure_scalar) ==
    RMul(near_density, near_pressure_scalar)

calculate_shared_pressure(pressure_1, pressure_2) ==
    RDiv(RAdd(pressure_1, pressure_2), R(2, 1))

(***************************************************************************)
(* Resources and their defaults                                            *)
(***************************************************************************)
\* impl Default for FluidParticleStaticProperties
DefaultProps ==
    [radius |-> R(5, 100),
     collision_damping |-> R(95, 100),
     mass |-> One,
     smoothing_radius |-> R(1, 10),
     target_density |-> R(6, 1),
     pressure_scalar |-> R(10, 1),
     near_pressure_scalar |-> One]

\* impl Default for Gravity: (0, -GRAVITY_FORCE)
DefaultGravity == Vec2(Zero, R(-98, 10))

\* impl Default for FluidContainer: centre FLUID_CONTAINER_POSITION, size
\* FLUID_CONTAINER_SIZE (its x and y)
DefaultContainer == [position |-> Vec2_ZERO, size |-> Vec2(R(16, 1), R(9, 1))]

\* FluidContainer::get_extents: the corners (min, max) of the box
get_extents(c) ==
    [min |-> VSub(c.position, VDivS(c.size, R(2, 1))),
     max |-> VAdd(c.position, VDivS(c.size, R(2, 1)))]

\* Time<Fixed>::delta_seconds(): Bevy's fixed timestep, 64 Hz
delta_seconds == R(1, 64)

\* FluidParticleBundle { transform: from_xyz(point), ..default() }
NewParticle(id, point) ==
    [id |-> id,
     pos |-> point,
     vel |-> Vec2_ZERO,
     acc |-> Vec2_ZERO,
     pforce |-> Vec2_ZERO,
     pred |-> Vec2_ZERO,
     density |-> Zero,
     near_density |-> Zero,
     pressure |-> Zero,
     near_pressure |-> Zero]

(***************************************************************************)
(* fluid.rs: the body of each system's par_iter_mut closure, for the       *)
(* particle at index i of the table ps; and the system as a whole          *)
(***************************************************************************)
\* apply_external_forces adding the gravity step twice
apply_external_forces_one_twice(ps, i, g, dt) ==
    [ps[i] EXCEPT !.vel = VAdd(VAdd(@, VScale(g, dt)), VScale(g, dt))]

apply_external_forces_one(ps, i, g, dt) ==
    [ps[i] EXCEPT !.vel = VAdd(@, VScale(g, dt))]

update_predicted_positions_one(ps, i) ==
    [ps[i] EXCEPT !.pred = VAdd(ps[i].pos, VDivS(VScale(ps[i].vel, One), R(120, 1)))]

\* the density sums with the particle itself left out, as update_pressure_force
\* leaves it out
RECURSIVE DensitySum_others(_, _, _, _)
DensitySum_others(ps, i, fp, k) ==
    IF k > Len(ps) THEN <<Zero, Zero>>
    ELSE IF ps[k].id = ps[i].id THEN DensitySum_others(ps, i, fp, k + 1)
    ELSE LET rest == DensitySum_others(ps, i, fp, k + 1)
             dist == distance(ps[i].pred, ps[k].pred)
         IN  <<RAdd(RMul(fp.mass, fluid_smoothing_kernel(fp.smoothing_radius, dist)),
                    rest[1]),
               RAdd(RMul(fp.mass, fluid_smoothing_kernel_near(fp.smoothing_radius, dist)),
                    rest[2])>>

\* the loop over neighbor_query of update_density_and_pressure: the sums
\* (density, near density) over the particles k..Len(ps)
RECURSIVE DensitySum(_, _, _, _)
DensitySum(ps, i, fp, k) ==
    IF k > Len(ps) THEN <<Zero, Zero>>
    ELSE LET rest == DensitySum(ps, i, fp, k + 1)
             dist == distance(ps[i].pred, ps[k].pred)
             influence == fluid_smoothing_kernel(fp.smoothing_radius, dist)
             influence_near == fluid_smoothing_kernel_near(fp.smoothing_radius, dist)
         IN  <<RAdd(RMul(fp.mass, influence), rest[1]),
               RAdd(RMul(fp.mass, influence_near), rest[2])>>

update_density_and_pressure_one(ps, i, fp) ==
    LET sums == DensitySum(ps, i, fp, 1)
        new_density == sums[1]
        new_near_density == sums[2]
    IN  [ps[i] EXCEPT
            !.density = new_density,
            !.near_density = new_near_density,
            !.pressure = convert_density_to_pressure(
                             new_density, fp.target_density, fp.pressure_scalar),
            !.near_pressure = convert_near_density_to_near_pressure(
                                  new_near_density, fp.near_pressure_scalar)]

\* Direction with its test inverted: the fallback taken for every neighbour.
Direction_fallback(position, neighbor_position, dist) ==
    IF RLt(dist, Zero)
    THEN VScale(VDivS(VSub(position, neighbor_position), dist), R(-1, 1))
    ELSE Vec2_Y

\* Direction without the test of the distance: the division for every neighbour.
Direction_unguarded(position, neighbor_position, dist) ==
    VScale(VDivS(VSub(position, neighbor_position), dist), R(-1, 1))

\* let direction: the unit vector from the particle to its neighbour, or +Y
Direction(position, neighbor_position, dist) ==
    IF RGt(dist, Zero)
    THEN VScale(VDivS(VSub(position, neighbor_position), dist), R(-1, 1))
    ELSE Vec2_Y

\* one iteration of the neighbour loop of update_pressure_force: the two terms
\* added to new_pressure_force for neighbour k
PressureTerm(ps, i, k, fp) ==
    LET dist == distance(ps[i].pred, ps[k].pred)
        direction == Direction(ps[i].pred, ps[k].pred, dist)
        slope == fluid_smoothing_kernel_derivative(fp.smoothing_radius, dist)
        shared_pressure == calculate_shared_pressure(ps[i].pressure, ps[k].pressure)
        slope_near == fluid_smoothing_kernel_derivative_near(fp.smoothing_radius, dist)
        shared_pressure_near ==
            calculate_shared_pressure(ps[i].near_pressure, ps[k].near_pressure)
    IN  VAdd(VDivS(VScale(VScale(VScale(direction, shared_pressure), slope), fp.mass),
                   ps[k].density),
             VDivS(VScale(VScale(VScale(direction, shared_pressure_near), slope_near),
                          fp.mass),
                   ps[k].near_density))

RECURSIVE PressureSum(_, _, _, _)
PressureSum(ps, i, fp, k) ==
    IF k > Len(ps) THEN Vec2_ZERO
    ELSE IF ps[k].id = ps[i].id THEN PressureSum(ps, i, fp, k + 1)
    ELSE VAdd(PressureTerm(ps, i, k, fp), PressureSum(ps, i, fp, k + 1))

update_pressure_force_one(ps, i, fp) ==
    [ps[i] EXCEPT !.pforce = PressureSum(ps, i, fp, 1)]

\* the sum of the neighbours' velocities relative to particle i
RECURSIVE RelativeVelocitySum(_, _, _)
RelativeVelocitySum(ps, i, k) ==
    IF k > Len(ps) THEN Vec2_ZERO
    ELSE VAdd(VSub(ps[k].vel, ps[i].vel), RelativeVelocitySum(ps, i, k + 1))

\* update_acceleration_and_velocity with a viscosity term folded into it: the
\* closure reads the neighbours' velocities, which the same pass writes.
update_acceleration_and_velocity_one_viscous(ps, i, dt) ==
    LET pressure_acceleration ==
            VAdd(VDivS(ps[i].pforce, ps[i].density), RelativeVelocitySum(ps, i, 1))
    IN  [ps[i] EXCEPT
            !.acc = pressure_acceleration,
            !.vel = VAdd(@, VScale(pressure_acceleration, dt))]

update_acceleration_and_velocity_one(ps, i, dt) ==
    LET pressure_acceleration == VDivS(ps[i].pforce, ps[i].density)
    IN  [ps[i] EXCEPT
            !.acc = pressure_acceleration,
            !.vel = VAdd(@, VScale(pressure_acceleration, dt))]

\* update_position moving the particle by twice its velocity * dt
update_position_one_doubled(ps, i, dt) ==
    [ps[i] EXCEPT !.pos = VAdd(@, VScale(ps[i].vel, RMul(R(2, 1), dt)))]

update_position_one(ps, i, dt) ==
    [ps[i] EXCEPT !.pos = VAdd(@, VScale(ps[i].vel, dt))]

\* CollideAxis reflecting the velocity and leaving the position where it is.
CollideAxis_noclamp(x, v, lo, hi, damping) ==
    IF RLt(x, lo) \/ RGt(x, hi) THEN <<x, RMul(v, RMul(R(-1, 1), damping))>>
    ELSE <<x, v>>

\* CollideAxis reflecting the velocity undamped.
CollideAxis_undamped(x, v, lo, hi, damping) ==
    IF RLt(x, lo) THEN <<lo, RMul(v, R(-1, 1))>>
    ELSE IF RGt(x, hi) THEN <<hi, RMul(v, R(-1, 1))>>
    ELSE <<x, v>>

\* one axis of the closure of update_velocity_on_collision: <<position, velocity>>
CollideAxis(x, v, lo, hi, damping) ==
    IF RLt(x, lo) THEN <<lo, RMul(v, RMul(R(-1, 1), damping))>>
    ELSE IF RGt(x, hi) THEN <<hi, RMul(v, RMul(R(-1, 1), damping))>>
    ELSE <<x, v>>

\* ext_min += rad_vec; ext_max -= rad_vec
PaddedExtents(c, fp) ==
    LET e == get_extents(c)
        rad_vec == VScale(Vec2_ONE, fp.radius)
    IN  [min |-> VAdd(e.min, rad_vec), max |-> VSub(e.max, rad_vec)]

update_velocity_on_collision_one(ps, i, fp, c) ==
    LET e == PaddedExtents(c, fp)
        ax == CollideAxis(ps[i].pos.x, ps[i].vel.x, e.min.x, e.max.x, fp.collision_damping)
        ay == CollideAxis(ps[i].pos.y, ps[i].vel.y, e.min.y, e.max.y, fp.collision_damping)
    IN  [ps[i] EXCEPT !.pos = Vec2(ax[1], ay[1]), !.vel = Vec2(ax[2], ay[2])]

\* The FixedUpdate systems, by name: the closure of system sys at particle i.
SystemOne(sys, ps, i, fp, g, c) ==
    CASE sys = "apply_external_forces" -> apply_external_forces_one(ps, i, g, delta_seconds)
      [] sys = "update_predicted_positions" -> update_predicted_positions_one(ps, i)
      [] sys = "update_density_and_pressure" -> update_density_and_pressure_one(ps, i, fp)
      [] sys = "update_pressure_force" -> update_pressure_force_one(ps, i, fp)
      [] sys = "update_acceleration_and_velocity" ->
             update_acceleration_and_velocity_one(ps, i, delta_seconds)
      [] sys = "update_position" -> update_position_one(ps, i, delta_seconds)
      [] sys = "update_velocity_on_collision" -> update_velocity_on_collision_one(ps, i, fp, c)

\* A system run to completion: every particle's closure, each on the table as
\* the system found it.
RunSystem(sys, ps, fp, g, c) ==
    [i \in 1..Len(ps) |-> SystemOne(sys, ps, i, fp, g, c)]


(***************************************************************************)
(* Values of the variables a scenario does not use                         *)
(***************************************************************************)
KernelNames ==
    {"smoothing_kernel", "smoothing_kernel_derivative", "smoothing_kernel_near",
     "smoothing_kernel_derivative_near", "smoothing_kernel_viscosity",
     "fluid_smoothing_kernel", "fluid_smoothing_kernel_near",
     "fluid_smoothing_kernel_derivative", "fluid_smoothing_kernel_derivative_near"}

\* no kernel evaluated yet
NoResults == [f \in KernelNames |-> NaN]

NoKernel == kargs = [radius |-> One, distance |-> Zero] /\ kres = NoResults

NoApp ==
    /\ state = "Menu"
    /\ next_state = "None"
    /\ commands = <<>>
    /\ sched = {}

DefaultResources ==
    /\ props = DefaultProps
    /\ gravity = DefaultGravity
    /\ container = DefaultContainer

(***************************************************************************)
(* Scenario: the kernels as pure functions                                 *)
(***************************************************************************)
MaxKernelRadius == 4
MaxKernelDistance == 12

KernelInit ==
    /\ kargs \in {[radius |-> R(a, 2), distance |-> R(b, 2)] :
                      a \in 1..MaxKernelRadius, b \in 0..MaxKernelDistance}
    /\ kres = NoResults
    /\ particles = <<>>
    /\ DefaultResources
    /\ NoApp
    /\ pc = "kernel"
    /\ history = <<>>

EvalKernels ==
    /\ pc = "kernel"
    /\ pc' = "evaluated"
    /\ kres' =
        [smoothing_kernel |-> smoothing_kernel(kargs.radius, kargs.distance),
         smoothing_kernel_derivative |->
             smoothing_kernel_derivative(kargs.radius, kargs.distance),
         smoothing_kernel_near |-> smoothing_kernel_near(kargs.radius, kargs.distance),
         smoothing_kernel_derivative_near |->
             smoothing_kernel_derivative_near(kargs.radius, kargs.distance),
         smoothing_kernel_viscosity |->
             smoothing_kernel_viscosity(kargs.radius, kargs.distance),
         fluid_smoothing_kernel |-> fluid_smoothing_kernel(kargs.radius, kargs.distance),
         fluid_smoothing_kernel_near |->
             fluid_smoothing_kernel_near(kargs.radius, kargs.distance),
         fluid_smoothing_kernel_derivative |->
             fluid_smoothing_kernel_derivative(kargs.radius, kargs.distance),
         fluid_smoothing_kernel_derivative_near |->
             fluid_smoothing_kernel_derivative_near(kargs.radius, kargs.distance)]
    /\ UNCHANGED <<particles, props, gravity, container, state, next_state,
                   commands, sched, history, kargs>>

KernelNext == EvalKernels

SpecKernel == KernelInit /\ [][KernelNext]_vars

\* C10: beyond the cutoff (distance > radius, radius > 0) every kernel of
\* smoothing.rs and of fluid.rs returns exactly 0.
KernelCutoff ==
    (pc = "evaluated" /\ RGt(kargs.radius, Zero) /\ RGt(kargs.distance, kargs.radius))
        => \A f \in KernelNames : kres[f] = Zero

KernelCutoffWitness ==
    /\ pc = "evaluated"
    /\ RGt(kargs.radius, Zero)
    /\ RGt(kargs.distance, kargs.radius)
    /\ kres.smoothing_kernel_viscosity = Zero

\* the distances of the kernel scenario
KernelDistances == {R(b, 2) : b \in 0..MaxKernelDistance}

\* C11: for every radius > 0, smoothing_kernel(radius, 0) > 0, and
\* smoothing_kernel is strictly decreasing in the distance on [0, radius]: the
\* value at the distance evaluated is greater than the value at every greater
\* distance up to the radius.
KernelDecreasing ==
    (pc = "evaluated" /\ RGt(kargs.radius, Zero)) =>
        /\ kargs.distance = Zero => RGt(kres.smoothing_kernel, Zero)
        /\ \A d2 \in KernelDistances :
               (RLe(Zero, kargs.distance) /\ RLt(kargs.distance, d2)
                       /\ RLe(d2, kargs.radius))
                   => RGt(kres.smoothing_kernel, smoothing_kernel(kargs.radius, d2))

\* the kernel evaluated inside the radius, above its value further out, which
\* is above zero
KernelDecreasingWitness ==
    /\ pc = "evaluated"
    /\ kargs = [radius |-> R(2, 1), distance |-> R(1, 2)]
    /\ RGt(kres.smoothing_kernel, smoothing_kernel(kargs.radius, One))
    /\ RGt(smoothing_kernel(kargs.radius, One), Zero)

\* C20: for every radius > 0, smoothing_kernel_derivative is strictly negative
\* for 0 <= distance < radius and exactly 0 at distance = radius, the value it
\* returns beyond the cutoff.
KernelDerivativeSign ==
    (pc = "evaluated" /\ RGt(kargs.radius, Zero)) =>
        /\ (RLe(Zero, kargs.distance) /\ RLt(kargs.distance, kargs.radius))
               => RLt(kres.smoothing_kernel_derivative, Zero)
        /\ kargs.distance = kargs.radius
               => /\ kres.smoothing_kernel_derivative = Zero
                  /\ \A d2 \in KernelDistances :
                         RGt(d2, kargs.radius)
                             => smoothing_kernel_derivative(kargs.radius, d2)
                                    = kres.smoothing_kernel_derivative

\* the derivative evaluated inside the radius, where it is negative
KernelDerivativeSignWitness ==
    /\ pc = "evaluated"
    /\ RLt(kargs.distance, kargs.radius)
    /\ RLt(kres.smoothing_kernel_derivative, Zero)

\* C21: for radius > 0 and 0 <= distance <= radius,
\* smoothing_kernel_derivative_near is the derivative in the distance of
\* smoothing_kernel_near, -(30 / (PI * radius^5)) * (radius - distance)^2: it
\* is non-positive, as smoothing_kernel_derivative is, which is the derivative
\* -(12 / (PI * radius^4)) * (radius - distance) of smoothing_kernel.
KernelDerivativeNear ==
    (pc = "evaluated" /\ RGt(kargs.radius, Zero) /\ RLe(Zero, kargs.distance)
            /\ RLe(kargs.distance, kargs.radius)) =>
        LET v == RSub(kargs.radius, kargs.distance)
            slope == RNeg(RMul(RDiv(R(12, 1), RMul(PI, RPow(kargs.radius, 4))), v))
            slope_near == RNeg(RMul(RDiv(R(30, 1), RMul(PI, RPow(kargs.radius, 5))),
                                    RMul(v, v)))
        IN  /\ kres.smoothing_kernel_derivative = slope
            /\ kres.smoothing_kernel_derivative_near = slope_near
            /\ RLe(kres.smoothing_kernel_derivative_near, Zero)
            /\ kres.fluid_smoothing_kernel_derivative_near = slope_near

(***************************************************************************)
(* Scenario: update_velocity_on_collision on one particle, for any         *)
(* position, velocity, container size, particle radius and damping         *)
(***************************************************************************)
MaxCoord == 1
MaxSpeed == 1
MaxSize == 3

Dampings == {Zero, R(95, 100), One}

CollideInit ==
    /\ \E px, py \in -MaxCoord..MaxCoord, vx, vy \in -MaxSpeed..MaxSpeed :
          particles = <<[NewParticle(<<0, 1>>, Vec2(R(px, 1), R(py, 1)))
                            EXCEPT !.vel = Vec2(R(vx, 1), R(vy, 2))]>>
    /\ \E rad \in {R(1, 2), One}, damping \in Dampings :
          props = [DefaultProps EXCEPT !.radius = rad, !.collision_damping = damping]
    /\ \E sx, sy \in 1..MaxSize :
          container = [position |-> Vec2_ZERO, size |-> Vec2(R(sx, 1), R(sy, 1))]
    /\ gravity = DefaultGravity
    /\ NoApp
    /\ NoKernel
    /\ pc = "collide"
    /\ history = <<>>

Collide ==
    /\ pc = "collide"
    /\ particles' = RunSystem("update_velocity_on_collision", particles, props,
                              gravity, container)
    /\ history' = <<particles>>
    /\ pc' = "collided"
    /\ UNCHANGED <<props, gravity, container, state, next_state, commands, sched,
                   kargs, kres>>

CollideNext == Collide

SpecCollide == CollideInit /\ [][CollideNext]_vars

\* the bounds update_velocity_on_collision clamps to
Bounds == PaddedExtents(container, props)

Within(x, lo, hi) == RGe(x, lo) /\ RLe(x, hi)

\* C1 as claimed: after update_velocity_on_collision every particle lies in
\* [ext_min + radius, ext_max - radius] on both axes, for every container
\* extent and radius.
ContainmentAnyContainer ==
    pc = "collided" =>
        \A i \in 1..Len(particles) :
            /\ Within(particles[i].pos.x, Bounds.min.x, Bounds.max.x)
            /\ Within(particles[i].pos.y, Bounds.min.y, Bounds.max.y)

\* C1 as amended: after update_velocity_on_collision every particle lies in
\* [ext_min + radius, ext_max - radius] on each axis on which the container is
\* at least two radii wide (ext_min + radius <= ext_max - radius).
Containment ==
    pc = "collided" =>
        \A i \in 1..Len(particles) :
            /\ RLe(Bounds.min.x, Bounds.max.x)
                   => Within(particles[i].pos.x, Bounds.min.x, Bounds.max.x)
            /\ RLe(Bounds.min.y, Bounds.max.y)
                   => Within(particles[i].pos.y, Bounds.min.y, Bounds.max.y)

\* a particle that started outside a container wide enough has been clamped
ContainmentWitness ==
    /\ pc = "collided"
    /\ RLe(Bounds.min.x, Bounds.max.x)
    /\ RGt(history[1][1].pos.x, Bounds.max.x)
    /\ particles[1].pos.x = Bounds.max.x

Reflected(x, lo, hi) == RLt(x, lo) \/ RGt(x, hi)

\* C9 as claimed: with 0 <= collision_damping < 1, on every reflected axis the
\* velocity is strictly smaller in absolute value after the call than before.
BounceStrictlySlower ==
    (pc = "collided" /\ RGe(props.collision_damping, Zero)
                     /\ RLt(props.collision_damping, One)) =>
        \A i \in 1..Len(particles) :
            /\ Reflected(history[1][i].pos.x, Bounds.min.x, Bounds.max.x)
                   => RLt(RAbs(particles[i].vel.x), RAbs(history[1][i].vel.x))
            /\ Reflected(history[1][i].pos.y, Bounds.min.y, Bounds.max.y)
                   => RLt(RAbs(particles[i].vel.y), RAbs(history[1][i].vel.y))

SlowerOrStill(before, after) ==
    IF before = Zero THEN after = Zero ELSE RLt(RAbs(after), RAbs(before))

\* C9 as amended: with 0 <= collision_damping < 1, on every reflected axis the
\* velocity is strictly smaller in absolute value after the call than before
\* when it was not zero, and stays zero when it was zero.
BounceSlower ==
    (pc = "collided" /\ RGe(props.collision_damping, Zero)
                     /\ RLt(props.collision_damping, One)) =>
        \A i \in 1..Len(particles) :
            /\ Reflected(history[1][i].pos.x, Bounds.min.x, Bounds.max.x)
                   => SlowerOrStill(history[1][i].vel.x, particles[i].vel.x)
            /\ Reflected(history[1][i].pos.y, Bounds.min.y, Bounds.max.y)
                   => SlowerOrStill(history[1][i].vel.y, particles[i].vel.y)

\* a moving particle bounced off the floor with the default damping
BounceSlowerWitness ==
    /\ pc = "collided"
    /\ props.collision_damping = R(95, 100)
    /\ RLt(history[1][1].pos.y, Bounds.min.y)
    /\ history[1][1].vel.y # Zero
    /\ particles[1].vel.y = RMul(history[1][1].vel.y, R(-95, 100))


(***************************************************************************)
(* Scenario: one physics tick, system after system in the order of the     *)
(* two chains of FluidPlugin::build, on one or two particles at rest       *)
(***************************************************************************)
\* (apply_external_forces, ..., update_acceleration_and_velocity).chain()
PropertyUpdates ==
    <<"apply_external_forces", "update_predicted_positions",
      "update_density_and_pressure", "update_pressure_force",
      "update_acceleration_and_velocity">>

\* (update_position, update_velocity_on_collision).chain()
PositionUpdates == <<"update_position", "update_velocity_on_collision">>

Systems == PropertyUpdates \o PositionUpdates

\* the place of a system in Systems
Index(sys) == CHOOSE k \in 1..Len(Systems) : Systems[k] = sys

MaxGrid == 1

GridPoints == {Vec2(R(a, 10), R(b, 10)) : a, b \in -MaxGrid..MaxGrid}

Radii == {R(1, 10), R(1, 5), R(1, 2)}

TinyMass == R(1, 1000000)

\* The pairs of points whose distance is rational (on a common axis line, or
\* spanning a Pythagorean triangle): the distances the model computes exactly.
RationalDistance(p, q) ==
    LET d == VSub(p, q)
        sq == RAdd(RMul(d.x, d.x), RMul(d.y, d.y))
    IN  IsSquare(sq[1]) /\ IsSquare(sq[2])

TickInit ==
    /\ \/ \E p, q \in GridPoints :
             /\ RationalDistance(p, q)
             /\ particles = <<NewParticle(<<0, 1>>, p), NewParticle(<<0, 2>>, q)>>
             /\ \E r \in Radii : props = [DefaultProps EXCEPT !.smoothing_radius = r]
       \/ \E p \in GridPoints :
             /\ particles = <<NewParticle(<<0, 1>>, p)>>
             /\ \E r \in Radii \cup {One}, m \in {One, TinyMass} :
                   props = [DefaultProps EXCEPT !.smoothing_radius = r, !.mass = m]
    /\ gravity \in {Vec2_ZERO, DefaultGravity}
    /\ container = DefaultContainer
    /\ NoApp
    /\ NoKernel
    /\ pc = 1
    /\ history = <<particles>>

\* the next system of the tick runs to completion
TickStep ==
    /\ pc \in 1..Len(Systems)
    /\ particles' = RunSystem(Systems[pc], particles, props, gravity, container)
    /\ pc' = pc + 1
    /\ UNCHANGED <<props, gravity, container, state, next_state, commands, sched,
                   history, kargs, kres>>

TickNext == TickStep

SpecTick == TickInit /\ [][TickNext]_vars

Ran(sys) == pc > Index(sys)

\* C2: after update_density_and_pressure every particle has density and near
\* density of at least DENSITY_PADDING, for every positive mass and smoothing
\* radius.
DensityFloor ==
    Ran("update_density_and_pressure") =>
        \A i \in 1..Len(particles) :
            /\ RGe(particles[i].density, DENSITY_PADDING)
            /\ RGe(particles[i].near_density, DENSITY_PADDING)


\* The particle table is two particles at rest at opposite positions p, -p.
OppositePair(ps) ==
    /\ Len(ps) = 2
    /\ ps[1].pos = VNeg(ps[2].pos)
    /\ ps[1].pos # Vec2_ZERO
    /\ ps[1].vel = Vec2_ZERO /\ ps[2].vel = Vec2_ZERO

\* C7: for two particles at rest at opposite positions p and -p (p # 0), after
\* the density pass and update_pressure_force the pressure force on the one
\* is the negation of the pressure force on the other.
MomentumConserved ==
    (Ran("update_pressure_force") /\ OppositePair(history[1]))
        => particles[1].pforce = VNeg(particles[2].pforce)

\* an opposite pair within the smoothing radius, pushed by non-zero forces
MomentumConservedWitness ==
    /\ Ran("update_pressure_force")
    /\ OppositePair(history[1])
    /\ particles[1].pforce # Vec2_ZERO
    /\ particles[1].pforce = VNeg(particles[2].pforce)

\* The scenario of C8: particles at (-0.1, 0) and (0.1, 0), smoothing radius
\* 0.2, at rest, no gravity, after the density and force passes.
TwoParticleScenario ==
    /\ Len(history[1]) = 2
    /\ history[1][1].pos = Vec2(R(-1, 10), Zero)
    /\ history[1][2].pos = Vec2(R(1, 10), Zero)
    /\ history[1][1].vel = Vec2_ZERO /\ history[1][2].vel = Vec2_ZERO
    /\ props.smoothing_radius = R(2, 10)
    /\ gravity = Vec2_ZERO
    /\ Ran("update_acceleration_and_velocity")

\* C8 as claimed: in the two-particle scenario both particles get a non-zero
\* acceleration along x, of equal magnitude and opposite sign, each directed
\* away from the other particle.
TwoParticleRepulsion ==
    TwoParticleScenario =>
        /\ RLt(particles[1].acc.x, Zero)
        /\ RGt(particles[2].acc.x, Zero)
        /\ particles[1].acc.x = RNeg(particles[2].acc.x)

\* C8 as amended: in the two-particle scenario the particles are exactly one
\* smoothing radius apart, where both derivative kernels are 0, so both get a
\* pressure force and an acceleration of exactly zero (equal magnitude, no
\* repulsion).
TwoParticleNoForce ==
    TwoParticleScenario =>
        \A i \in 1..2 :
            particles[i].pforce = Vec2_ZERO /\ particles[i].acc = Vec2_ZERO

TwoParticleNoForceWitness ==
    /\ TwoParticleScenario
    /\ distance(particles[1].pred, particles[2].pred) = props.smoothing_radius
    /\ RGt(particles[1].pressure, Zero)
    /\ particles[1].acc = Vec2_ZERO


VFinite(v) == IsFinite(v.x) /\ IsFinite(v.y)

\* C17: for mass > 0 and smoothing_radius > 0 and any positions, coincident
\* predicted positions included, the force pass divides by no zero: after the
\* density pass every density and near_density (the divisors) is > 0, and the
\* pressure force, the acceleration and the velocity computed from them are
\* finite numbers.
NoDivisionByZero ==
    (RGt(props.mass, Zero) /\ RGt(props.smoothing_radius, Zero)) =>
        \A i \in 1..Len(particles) :
            /\ Ran("update_density_and_pressure")
                   => /\ RGt(particles[i].density, Zero)
                      /\ RGt(particles[i].near_density, Zero)
            /\ Ran("update_pressure_force") => VFinite(particles[i].pforce)
            /\ Ran("update_acceleration_and_velocity")
                   => VFinite(particles[i].acc) /\ VFinite(particles[i].vel)

\* two particles at one predicted position, pushed by a finite non-zero force
NoDivisionByZeroWitness ==
    /\ Ran("update_acceleration_and_velocity")
    /\ Len(particles) = 2
    /\ particles[1].pred = particles[2].pred
    /\ particles[1].pforce # Vec2_ZERO
    /\ VFinite(particles[1].acc)

\* particle i has no other particle within the smoothing radius
Isolated(ps, i, fp) ==
    \A k \in 1..Len(ps) :
        k # i => RGt(distance(ps[i].pred, ps[k].pred), fp.smoothing_radius)

\* C18: after update_density_and_pressure every particle's density is at least
\* mass * smoothing_kernel(smoothing_radius, 0) and its near_density at least
\* mass * smoothing_kernel_near(smoothing_radius, 0), its own contribution; an
\* isolated particle has exactly these values.
SelfContribution ==
    Ran("update_density_and_pressure") =>
        \A i \in 1..Len(particles) :
            LET own == RMul(props.mass,
                            fluid_smoothing_kernel(props.smoothing_radius, Zero))
                own_near == RMul(props.mass,
                                 fluid_smoothing_kernel_near(props.smoothing_radius, Zero))
            IN  /\ RGe(particles[i].density, own)
                /\ RGe(particles[i].near_density, own_near)
                /\ Isolated(particles, i, props)
                       => particles[i].density = own /\ particles[i].near_density = own_near

\* a single particle after the density pass, with its own contribution as its
\* density
SelfContributionWitness ==
    /\ Ran("update_density_and_pressure")
    /\ Len(particles) = 1
    /\ RGt(particles[1].density, Zero)
    /\ particles[1].density
           = RMul(props.mass, fluid_smoothing_kernel(props.smoothing_radius, Zero))

NumPar == 2

SmallContainer == [position |-> Vec2_ZERO, size |-> Vec2(R(11, 10), R(11, 10))]

\* particle i of the scenario: on the x axis, moving along it at its own speed
ParParticle(i, a) ==
    [NewParticle(<<0, i>>, Vec2(R(a, 2), Zero)) EXCEPT !.vel = Vec2(R(60 * i, 1), Zero)]

ParInit ==
    /\ \E xs \in [1..NumPar -> -MaxGrid..MaxGrid] :
          particles = [i \in 1..NumPar |-> ParParticle(i, xs[i])]
    /\ props = [DefaultProps EXCEPT !.smoothing_radius = One]
    /\ gravity = DefaultGravity
    /\ container \in {DefaultContainer, SmallContainer}
    /\ NoApp
    /\ NoKernel
    /\ pc = [pass |-> 1,
             phase |-> [i \in 1..NumPar |-> "todo"],
             local |-> particles]
    /\ history = <<particles>>

\* the closure of particle i reads what it needs and computes its new values
ParRead(i) ==
    /\ pc.phase[i] = "todo"
    /\ pc' = [pc EXCEPT !.phase[i] = "read",
                        !.local[i] = SystemOne(Systems[pc.pass], particles, i,
                                               props, gravity, container)]
    /\ UNCHANGED <<particles, props, gravity, container, state, next_state,
                   commands, sched, history, kargs, kres>>

\* the closure of particle i stores its new values in its own components
ParWrite(i) ==
    /\ pc.phase[i] = "read"
    /\ particles' = [particles EXCEPT ![i] = pc.local[i]]
    /\ pc' = [pc EXCEPT !.phase[i] = "done"]
    /\ UNCHANGED <<props, gravity, container, state, next_state, commands, sched,
                   history, kargs, kres>>

ParDone == \A i \in 1..Len(particles) : pc.phase[i] = "done"

\* the system has returned; the executor starts the next one of the chain
ParNextSystem ==
    /\ ParDone
    /\ pc.pass < Len(Systems)
    /\ pc' = [pass |-> pc.pass + 1,
              phase |-> [i \in 1..Len(particles) |-> "todo"],
              local |-> particles]
    /\ history' = <<particles>>
    /\ UNCHANGED <<particles, props, gravity, container, state, next_state,
                   commands, sched, kargs, kres>>

ParNext ==
    \/ \E i \in 1..Len(particles) : ParRead(i)
    \/ \E i \in 1..Len(particles) : ParWrite(i)
    \/ ParNextSystem

SpecPar == ParInit /\ [][ParNext]_vars

\* the passes C4 names
ParallelPasses ==
    {"update_density_and_pressure", "update_pressure_force",
     "update_acceleration_and_velocity", "update_position",
     "update_velocity_on_collision"}

\* C4: whatever the order and interleaving of the per-particle closures of a
\* pass, the particle table after the pass is the one that results from
\* running every closure on the table as it was when the pass began.
ParallelIndependent ==
    (ParDone /\ Systems[pc.pass] \in ParallelPasses)
        => particles = RunSystem(Systems[pc.pass], history[1], props, gravity, container)

\* the velocity pass has completed with the second closure reading after the
\* first one wrote, and has changed the velocities
ParallelIndependentWitness ==
    /\ ParDone
    /\ Systems[pc.pass] = "update_acceleration_and_velocity"
    /\ pc.local[2].vel # history[1][2].vel
    /\ particles[1].vel # history[1][1].vel
    /\ particles[1].acc # Vec2_ZERO


(***************************************************************************)
(* The application: the frames of the Main schedule                        *)
(*                                                                         *)
(* A frame runs StateTransition, then RunFixedMainLoop (FixedUpdate zero   *)
(* or more times), then Update.  Commands are deferred: they are applied   *)
(* at an apply_deferred system or when their schedule ends.                *)
(***************************************************************************)
\* N_SIZE of fluid.rs is 50; the model seeds N_SIZE * N_SIZE particles too,
\* with a small N_SIZE
N_SIZE == 1

\* FixedUpdate runs at most MaxTicks times in a run, Space is pressed at most
\* MaxResets times
MaxTicks == 2
MaxResets == 2

cube_fluid(ni, nj, particle_rad) ==
    LET half_extents == Vec2(RMul(R(ni, 1), particle_rad), RMul(R(nj, 1), particle_rad))
        offset == VSub(Vec2(particle_rad, particle_rad), half_extents)
        diam == RMul(particle_rad, R(2, 1))
    IN  [k \in 1..(ni * nj) |->
            LET i == (k - 1) \div nj
                j == (k - 1) % nj
            IN  VAdd(Vec2(RMul(R(i, 1), diam), RMul(R(j, 1), diam)), offset)]

\* rand::thread_rng(): a generator seeded from outside the program.  A seed
\* fixes the stream; draw number n of the stream, as a fraction of [0, 1)
Seeds == {3, 11, 13}

Uniform(seed, n) == R((seed * n) % 16, 16)

\* rng.gen_bool(p): draw n falls below p
gen_bool(seed, n, p) == RLt(Uniform(seed, n), p)

\* rng.gen_range(low..high): draw n scaled into the half-open range
gen_range(seed, n, low, high) == RAdd(low, RMul(Uniform(seed, n), RSub(high, low)))

\* random_fluid on the stream of seed, whose draws up to number used are spent
random_fluid(nparticles, ext_min, ext_max, seed, used) ==
    [k \in 1..nparticles |->
        Vec2(gen_range(seed, used + 2 * k - 1, ext_min.x, ext_max.x),
             gen_range(seed, used + 2 * k, ext_min.y, ext_max.y))]

\* the points spawn_liquid chooses: coin_flip picks the cube or the random
\* layout
SpawnPoints(fp, c, seed) ==
    LET coin_flip == gen_bool(seed, 1, R(1, 2))
    IN  IF coin_flip THEN cube_fluid(N_SIZE, N_SIZE, fp.radius)
        ELSE random_fluid(N_SIZE * N_SIZE, get_extents(c).min, get_extents(c).max, seed, 1)

\* commands.spawn_batch(particle_bundles): the entities of generation gen
spawn_liquid(gen, points) ==
    [k \in 1..Len(points) |-> [op |-> "spawn", bundle |-> NewParticle(<<gen, k>>, points[k])]]

\* a reset loop that leaves the last entity of the query alive
despawn_liquid_keep_last(ps) ==
    [k \in 1..(Len(ps) - 1) |-> [op |-> "despawn", id |-> ps[k].id]]

\* for particle in query.iter() { ... despawn_recursive() }
despawn_liquid(ps) ==
    [k \in 1..Len(ps) |-> [op |-> "despawn", id |-> ps[k].id]]

\* the deferred commands cmds[k..] applied to the entity table ps, in order
RECURSIVE ApplyCommands(_, _, _)
ApplyCommands(ps, cmds, k) ==
    IF k > Len(cmds) THEN ps
    ELSE IF cmds[k].op = "spawn" THEN ApplyCommands(Append(ps, cmds[k].bundle), cmds, k + 1)
    ELSE ApplyCommands(SelectSeq(ps, LAMBDA e : e.id # cmds[k].id), cmds, k + 1)

\* what a reset leaves in the particle buffer, as the claims compare it
Buffer(ps) == [k \in 1..Len(ps) |-> [pos |-> ps[k].pos, vel |-> ps[k].vel, acc |-> ps[k].acc]]

\* the buffer of the latest seeding
Remember(gen, ps) == <<[gen |-> gen, buffer |-> Buffer(ps)]>>

Init ==
    /\ particles = <<>>
    /\ DefaultResources
    /\ NoApp
    /\ NoKernel
    /\ history = <<>>
    /\ pc = [phase |-> "Startup", ticks |-> 0, resets |-> 0]

\* Startup: spawn_liquid; its commands are applied when Startup ends
Startup ==
    /\ pc.phase = "Startup"
    /\ \E seed \in Seeds :
          /\ particles' = ApplyCommands(particles,
                              spawn_liquid(0, SpawnPoints(props, container, seed)), 1)
          /\ history' = Remember(0, particles')
    /\ pc' = [pc EXCEPT !.phase = "StateTransition"]
    /\ UNCHANGED <<props, gravity, container, state, next_state, commands, sched, kargs, kres>>

\* StateTransition: the queued state is entered; OnEnter(GameState::GameOver)
\* runs spawn_liquid and applies its commands
StateTransition ==
    /\ pc.phase = "StateTransition"
    /\ IF next_state # "None" /\ next_state # state
       THEN /\ state' = next_state
            /\ next_state' = "None"
            /\ IF next_state = "GameOver"
               THEN \E seed \in Seeds :
                       /\ particles' = ApplyCommands(particles,
                              spawn_liquid(pc.resets, SpawnPoints(props, container, seed)), 1)
                       /\ history' = Remember(pc.resets,
                              SelectSeq(particles', LAMBDA e : e.id[1] = pc.resets))
               ELSE UNCHANGED <<particles, history>>
       ELSE UNCHANGED <<state, next_state, particles, history>>
    /\ pc' = [pc EXCEPT !.phase = "RunFixedMainLoop"]
    /\ UNCHANGED <<props, gravity, container, commands, sched, kargs, kres>>

\* RunFixedMainLoop starts one more run of FixedUpdate
FixedUpdateBegin ==
    /\ pc.phase = "RunFixedMainLoop"
    /\ pc.ticks < MaxTicks
    /\ pc' = [pc EXCEPT !.phase = "FixedUpdate", !.ticks = @ + 1]
    /\ sched' = {}
    /\ UNCHANGED <<particles, props, gravity, container, state, next_state, commands,
                   history, kargs, kres>>

\* The systems FixedUpdate may run next.  FluidPlugin::build chains the
\* systems of each tuple; SchedulePlugin::build orders the PhysicsSet sets and
\* gives them their run condition in PostUpdate only, so in FixedUpdate the
\* two chains are not ordered against each other and run in every state.
Chains == {PropertyUpdates, PositionUpdates}

Ready(done) ==
    {sys \in {Systems[k] : k \in 1..Len(Systems)} \ done :
        \E ch \in Chains : \E k \in 1..Len(ch) :
            /\ ch[k] = sys
            /\ \A j \in 1..(k - 1) : ch[j] \in done}

FixedUpdateSystem ==
    /\ pc.phase = "FixedUpdate"
    /\ \E sys \in Ready(sched) :
          /\ particles' = RunSystem(sys, particles, props, gravity, container)
          /\ sched' = sched \cup {sys}
    /\ UNCHANGED <<props, gravity, container, state, next_state, commands, pc,
                   history, kargs, kres>>

FixedUpdateEnd ==
    /\ pc.phase = "FixedUpdate"
    /\ Ready(sched) = {}
    /\ pc' = [pc EXCEPT !.phase = "RunFixedMainLoop"]
    /\ sched' = {}
    /\ UNCHANGED <<particles, props, gravity, container, state, next_state, commands,
                   history, kargs, kres>>

RunFixedMainLoopEnd ==
    /\ pc.phase = "RunFixedMainLoop"
    /\ pc' = [pc EXCEPT !.phase = "Update"]
    /\ UNCHANGED <<particles, props, gravity, container, state, next_state, commands,
                   sched, history, kargs, kres>>

\* Update, InGameSet::DespawnEntities: despawn_liquid, when in GameState::InGame
DespawnEntities ==
    /\ pc.phase = "Update"
    /\ IF state = "InGame"
       THEN \E just_pressed_space \in BOOLEAN :
               /\ just_pressed_space => pc.resets < MaxResets
               /\ IF just_pressed_space
                  THEN /\ commands' = commands \o despawn_liquid(particles)
                       /\ next_state' = "GameOver"
                       /\ pc' = [pc EXCEPT !.phase = "apply_deferred", !.resets = @ + 1]
                  ELSE /\ pc' = [pc EXCEPT !.phase = "apply_deferred"]
                       /\ UNCHANGED <<commands, next_state>>
       ELSE /\ pc' = [pc EXCEPT !.phase = "apply_deferred"]
            /\ UNCHANGED <<commands, next_state>>
    /\ UNCHANGED <<particles, props, gravity, container, state, sched, history, kargs, kres>>

\* Update, flush point #1
apply_deferred ==
    /\ pc.phase = "apply_deferred"
    /\ particles' = ApplyCommands(particles, commands, 1)
    /\ commands' = <<>>
    /\ pc' = [pc EXCEPT !.phase = "UserInput"]
    /\ UNCHANGED <<props, gravity, container, state, next_state, sched, history, kargs, kres>>

\* Update, the menu: the Play button, there while the menu is
menu_action ==
    /\ pc.phase = "UserInput"
    /\ state = "Menu"
    /\ \E play_pressed \in BOOLEAN :
          next_state' = IF play_pressed THEN "InGame" ELSE next_state
    /\ pc' = [pc EXCEPT !.phase = "StateTransition"]
    /\ UNCHANGED <<particles, props, gravity, container, state, commands, sched,
                   history, kargs, kres>>

\* Update in GameState::GameOver: the game goes back to GameState::InGame
transition_to_in_game ==
    /\ pc.phase = "UserInput"
    /\ state = "GameOver"
    /\ next_state' = "InGame"
    /\ pc' = [pc EXCEPT !.phase = "StateTransition"]
    /\ UNCHANGED <<particles, props, gravity, container, state, commands, sched,
                   history, kargs, kres>>

\* Update in GameState::InGame: InGameSet::UserInput and EntityUpdates leave
\* the particles alone
InGameUpdates ==
    /\ pc.phase = "UserInput"
    /\ state = "InGame"
    /\ pc' = [pc EXCEPT !.phase = "StateTransition"]
    /\ UNCHANGED <<particles, props, gravity, container, state, next_state, commands,
                   sched, history, kargs, kres>>

Next ==
    \/ Startup
    \/ StateTransition
    \/ FixedUpdateBegin
    \/ FixedUpdateSystem
    \/ FixedUpdateEnd
    \/ RunFixedMainLoopEnd
    \/ DespawnEntities
    \/ apply_deferred
    \/ menu_action
    \/ transition_to_in_game
    \/ InGameUpdates

Spec == Init /\ [][Next]_vars

\* a physics tick is in flight
InTick == pc.phase = "FixedUpdate"

\* C3 (pass ordering): whenever a system of a tick has run, every system
\* before it in the order apply_external_forces, update_predicted_positions,
\* update_density_and_pressure, update_pressure_force,
\* update_acceleration_and_velocity, update_position,
\* update_velocity_on_collision has run in that tick too.
PassOrder ==
    InTick => \A k \in 1..Len(Systems) :
                 Systems[k] \in sched => \A j \in 1..(k - 1) : Systems[j] \in sched

\* C5 (idempotent reset): a reset that follows a reset seeds the buffer the
\* earlier reset seeded: as many particles, at the same positions, with the
\* same (zero) velocity and acceleration.
ResetIdempotent ==
    [][(history # <<>> /\ history' # history /\ history[1].gen >= 1)
          => history'[1].buffer = history[1].buffer]_vars

\* the whole buffer of the seeding after reset number gen, and nothing else
CompleteBuffer(ps, gen) ==
    /\ Len(ps) = N_SIZE * N_SIZE
    /\ \A k \in 1..Len(ps) : ps[k].id = <<gen, k>>

PhysicsOnlyInGame ==
    (InTick /\ sched # {}) => state = "InGame"

(***************************************************************************)
(* Scenario: the HUD.  update_fluid_props (hud.rs) edits the tunables      *)
(* frame after frame, from the defaults, for any keys held; physics ticks  *)
(* then run on one particle with the tunables edited.  The ticks write no  *)
(* tunable.                                                                *)
(***************************************************************************)
FLUID_PROPS_CHANGE_STEP == R(5, 100)

\* the keys update_fluid_props reads, in the order of its else-if chain
Keys ==
    <<"Digit1", "Digit2", "Digit3", "Digit4", "KeyQ", "KeyW", "KeyA", "KeyS",
      "KeyZ", "KeyX">>

\* update_fluid_props with the test of the Digit1 branch reduced to the key
update_fluid_props_unguarded(fp, g, pressed) ==
    IF "Digit1" \in pressed
    THEN [props |-> [fp EXCEPT !.smoothing_radius = RSub(@, FLUID_PROPS_CHANGE_STEP)],
          gravity |-> g]
    ELSE IF "Digit2" \in pressed
    THEN [props |-> [fp EXCEPT !.smoothing_radius = RAdd(@, FLUID_PROPS_CHANGE_STEP)],
          gravity |-> g]
    ELSE [props |-> fp, gravity |-> g]

\* update_fluid_props with every branch an if of its own, none an else-if
update_fluid_props_ifs(fp, g, pressed) ==
    LET step == FLUID_PROPS_CHANGE_STEP
        r1 == IF "Digit1" \in pressed /\ RGt(RSub(fp.smoothing_radius, step), Zero)
              THEN [fp EXCEPT !.smoothing_radius = RSub(@, step)] ELSE fp
        r2 == IF "Digit2" \in pressed
              THEN [r1 EXCEPT !.smoothing_radius = RAdd(@, step)] ELSE r1
        g3 == IF "Digit3" \in pressed THEN Vec2(g.x, RAdd(g.y, step)) ELSE g
        g4 == IF "Digit4" \in pressed THEN Vec2(g3.x, RSub(g3.y, step)) ELSE g3
        r5 == IF "KeyQ" \in pressed
              THEN [r2 EXCEPT !.pressure_scalar = RSub(@, step)] ELSE r2
        r6 == IF "KeyW" \in pressed
              THEN [r5 EXCEPT !.pressure_scalar = RAdd(@, step)] ELSE r5
        r7 == IF "KeyA" \in pressed
              THEN [r6 EXCEPT !.near_pressure_scalar = RSub(@, step)] ELSE r6
        r8 == IF "KeyS" \in pressed
              THEN [r7 EXCEPT !.near_pressure_scalar = RAdd(@, step)] ELSE r7
        r9 == IF "KeyZ" \in pressed
              THEN [r8 EXCEPT !.target_density = RSub(@, step)] ELSE r8
        r10 == IF "KeyX" \in pressed
               THEN [r9 EXCEPT !.target_density = RAdd(@, step)] ELSE r9
    IN  [props |-> r10, gravity |-> g4]

\* update_fluid_props: the first branch of the chain whose condition holds
\* edits one tunable by FLUID_PROPS_CHANGE_STEP; ButtonInput::pressed(key) is
\* key \in pressed
update_fluid_props(fp, g, pressed) ==
    IF "Digit1" \in pressed
           /\ RGt(RSub(fp.smoothing_radius, FLUID_PROPS_CHANGE_STEP), Zero)
    THEN [props |-> [fp EXCEPT !.smoothing_radius = RSub(@, FLUID_PROPS_CHANGE_STEP)],
          gravity |-> g]
    ELSE IF "Digit2" \in pressed
    THEN [props |-> [fp EXCEPT !.smoothing_radius = RAdd(@, FLUID_PROPS_CHANGE_STEP)],
          gravity |-> g]
    ELSE IF "Digit3" \in pressed
    THEN [props |-> fp, gravity |-> Vec2(g.x, RAdd(g.y, FLUID_PROPS_CHANGE_STEP))]
    ELSE IF "Digit4" \in pressed
    THEN [props |-> fp, gravity |-> Vec2(g.x, RSub(g.y, FLUID_PROPS_CHANGE_STEP))]
    ELSE IF "KeyQ" \in pressed
    THEN [props |-> [fp EXCEPT !.pressure_scalar = RSub(@, FLUID_PROPS_CHANGE_STEP)],
          gravity |-> g]
    ELSE IF "KeyW" \in pressed
    THEN [props |-> [fp EXCEPT !.pressure_scalar = RAdd(@, FLUID_PROPS_CHANGE_STEP)],
          gravity |-> g]
    ELSE IF "KeyA" \in pressed
    THEN [props |-> [fp EXCEPT !.near_pressure_scalar = RSub(@, FLUID_PROPS_CHANGE_STEP)],
          gravity |-> g]
    ELSE IF "KeyS" \in pressed
    THEN [props |-> [fp EXCEPT !.near_pressure_scalar = RAdd(@, FLUID_PROPS_CHANGE_STEP)],
          gravity |-> g]
    ELSE IF "KeyZ" \in pressed
    THEN [props |-> [fp EXCEPT !.target_density = RSub(@, FLUID_PROPS_CHANGE_STEP)],
          gravity |-> g]
    ELSE IF "KeyX" \in pressed
    THEN [props |-> [fp EXCEPT !.target_density = RAdd(@, FLUID_PROPS_CHANGE_STEP)],
          gravity |-> g]
    ELSE [props |-> fp, gravity |-> g]

\* one FixedUpdate tick: the systems from the k-th on, each on the result of
\* the one before
RECURSIVE FixedUpdateTick(_, _, _, _, _)
FixedUpdateTick(k, ps, fp, g, c) ==
    IF k > Len(Systems) THEN ps
    ELSE FixedUpdateTick(k + 1, RunSystem(Systems[k], ps, fp, g, c), fp, g, c)

MaxHudSteps == 2
MaxHudTicks == 1

\* the keys held in a frame: none, one, or two at once
KeyCombinations ==
    {pressed \in SUBSET {Keys[k] : k \in 1..Len(Keys)} : Cardinality(pressed) <= 2}

\* how many steps a tunable is from its default
StepsFrom(value, default) == RDiv(RAbs(RSub(value, default)), FLUID_PROPS_CHANGE_STEP)

\* The window of the scenario: the tunables are, together, at most
\* MaxHudSteps steps from their defaults, where near_pressure_scalar below its
\* default counts only for the steps it is below one step under zero.
HudWindow(fp, g) ==
    LET floor == RNeg(FLUID_PROPS_CHANGE_STEP)
        near == IF RGt(fp.near_pressure_scalar, DefaultProps.near_pressure_scalar)
                THEN StepsFrom(fp.near_pressure_scalar, DefaultProps.near_pressure_scalar)
                ELSE IF RLt(fp.near_pressure_scalar, floor)
                THEN StepsFrom(fp.near_pressure_scalar, floor)
                ELSE Zero
        sum == RAdd(StepsFrom(fp.smoothing_radius, DefaultProps.smoothing_radius),
               RAdd(StepsFrom(g.y, DefaultGravity.y),
               RAdd(StepsFrom(fp.pressure_scalar, DefaultProps.pressure_scalar),
               RAdd(StepsFrom(fp.target_density, DefaultProps.target_density), near))))
    IN  RLe(sum, R(MaxHudSteps, 1))

HudInit ==
    /\ DefaultResources
    /\ particles = <<NewParticle(<<0, 1>>, Vec2_ZERO)>>
    /\ pc = [phase |-> "Update", ticks |-> 0, refused |-> FALSE]
    /\ history = <<>>
    /\ NoApp
    /\ NoKernel

\* A frame's Update in GameState::InGame: update_fluid_props with the keys
\* held.  refused records that Digit1 was held and the radius was not lowered.
HudUpdate ==
    /\ pc.phase = "Update"
    /\ \E pressed \in KeyCombinations :
          LET res == update_fluid_props(props, gravity, pressed)
          IN  /\ HudWindow(res.props, res.gravity)
              /\ props' = res.props
              /\ gravity' = res.gravity
              /\ pc' = [pc EXCEPT !.refused =
                           "Digit1" \in pressed
                               /\ res.props.smoothing_radius = props.smoothing_radius]
    /\ UNCHANGED <<particles, container, state, next_state, commands, sched, history,
                   kargs, kres>>

\* a physics tick with the tunables as edited
HudTick ==
    /\ pc.ticks < MaxHudTicks
    /\ particles' = FixedUpdateTick(1, particles, props, gravity, container)
    /\ pc' = [pc EXCEPT !.phase = "FixedUpdate", !.ticks = @ + 1]
    /\ UNCHANGED <<props, gravity, container, state, next_state, commands, sched,
                   history, kargs, kres>>

HudNext ==
    \/ HudUpdate
    \/ HudTick

SpecHud == HudInit /\ [][HudNext]_vars

\* C15: in every state reached from the defaults by HUD edits and physics
\* ticks, every particle's near_pressure is >= 0.
NearPressureNonNegative ==
    \A i \in 1..Len(particles) : RGe(particles[i].near_pressure, Zero)

\* C16: after any sequence of update_fluid_props invocations from the
\* defaults, with any keys held, fluid_props.smoothing_radius > 0.
SmoothingRadiusPositive == RGt(props.smoothing_radius, Zero)

\* Digit1 held with the radius one step above zero: the radius is left as it is
SmoothingRadiusPositiveWitness ==
    /\ pc.refused
    /\ props.smoothing_radius = FLUID_PROPS_CHANGE_STEP

(***************************************************************************)
(* Scenario: free fall.  One particle at rest, gravity (0, g), the two     *)
(* pressure scalars zero; tick after tick, each tick running the systems   *)
(* in any order FixedUpdate allows.  collided records that                 *)
(* update_velocity_on_collision has moved or turned the particle.          *)
(***************************************************************************)
MaxFallTicks == 3

\* heights of the drop: the centre of the container, and just above its floor
FallHeights == {Zero, R(-444, 100)}

FallGravities == {DefaultGravity.y, R(5, 1)}

FallInit ==
    /\ \E x0 \in {Zero, One}, y0 \in FallHeights :
          particles = <<NewParticle(<<0, 1>>, Vec2(x0, y0))>>
    /\ props = [DefaultProps EXCEPT !.pressure_scalar = Zero,
                                    !.near_pressure_scalar = Zero]
    /\ \E g \in FallGravities : gravity = Vec2(Zero, g)
    /\ container = DefaultContainer
    /\ pc = [tick |-> 0, collided |-> FALSE]
    /\ history = <<particles>>
    /\ NoApp
    /\ NoKernel

\* a system of the tick in flight that FixedUpdate may run next runs
FallSystem ==
    /\ pc.tick < MaxFallTicks
    /\ \E sys \in Ready(sched) :
          /\ particles' = RunSystem(sys, particles, props, gravity, container)
          /\ sched' = sched \cup {sys}
          /\ pc' = [pc EXCEPT !.collided =
                       @ \/ (sys = "update_velocity_on_collision"
                                /\ particles' # particles)]
    /\ UNCHANGED <<props, gravity, container, state, next_state, commands, history,
                   kargs, kres>>

\* every system of the tick has run: the tick is over
FallTickEnd ==
    /\ pc.tick < MaxFallTicks
    /\ Ready(sched) = {}
    /\ sched' = {}
    /\ pc' = [pc EXCEPT !.tick = @ + 1]
    /\ UNCHANGED <<particles, props, gravity, container, state, next_state, commands,
                   history, kargs, kres>>

FallNext ==
    \/ FallSystem
    \/ FallTickEnd

SpecFall == FallInit /\ [][FallNext]_vars

\* C14: free fall.  After n whole ticks of length dt without a collision, the
\* velocity.y of the particle is g * n * dt, its position.y differs from
\* y0 + g * (n * dt)^2 / 2 by at most |g| * n * dt^2 / 2, and its velocity.x
\* and position.x are what they were.
FreeFall ==
    (sched = {} /\ ~pc.collided) =>
        LET p == particles[1]
            p0 == history[1][1]
            g == gravity.y
            dt == delta_seconds
            n == R(pc.tick, 1)
            t == RMul(n, dt)
            ideal == RAdd(p0.pos.y, RDiv(RMul(g, RMul(t, t)), R(2, 1)))
            tolerance == RDiv(RMul(RAbs(g), RMul(n, RMul(dt, dt))), R(2, 1))
        IN  /\ p.vel.y = RMul(g, t)
            /\ RLe(RAbs(RSub(p.pos.y, ideal)), tolerance)
            /\ p.vel.x = p0.vel.x
            /\ p.pos.x = p0.pos.x

\* two ticks or more of fall, without a collision
FreeFallWitness ==
    /\ sched = {}
    /\ ~pc.collided
    /\ pc.tick >= 2
    /\ particles[1].pos.y # history[1][1].pos.y
    /\ particles[1].vel.y = RMul(gravity.y, RMul(R(pc.tick, 1), delta_seconds))

(***************************************************************************)
(* fluid_compute.rs: the compute variant.  FluidWorker::build allocates    *)
(* the buffers and lines up the passes: hash_particles, one bitonic_sort   *)
(* pass per stage of get_bit_sorter_stages, calculate_cell_offsets,        *)
(* update_density, update_pressure_force, integrate.  The passes are       *)
(* shader entry points (bitonic_sort.wgsl, simulation.wgsl).  Buffers are  *)
(* functions on 0..n-1, as the shaders index them.                         *)
(***************************************************************************)
WORKGROUP_SIZE == 1024

\* get_batch_size without the increment for a remainder
get_batch_size_floor(num_particles) == num_particles \div WORKGROUP_SIZE

\* FluidStaticProps::get_batch_size
get_batch_size(num_particles) ==
    LET batch_size == num_particles \div WORKGROUP_SIZE
    IN  IF num_particles % WORKGROUP_SIZE > 0 THEN batch_size + 1 ELSE batch_size

\* u32::checked_next_power_of_two: the least power of two >= n, from p up
RECURSIVE next_power_of_two(_, _)
next_power_of_two(n, p) == IF p >= n THEN p ELSE next_power_of_two(n, 2 * p)

\* the inner loop of get_bit_sorter_stages: while block > 0 { push; block >>= 1 }
RECURSIVE BlockStages(_, _, _, _)
BlockStages(block, dim, batch_size, uniform_id) ==
    IF block > 0
    THEN <<[bit_sorter |-> [block |-> block, dim |-> dim],
            workgroups |-> <<batch_size, 1, 1>>,
            uniform_name |-> <<"bit_sorter", uniform_id>>]>>
         \o BlockStages(block \div 2, dim, batch_size, uniform_id + 1)
    ELSE <<>>

\* the outer loop of get_bit_sorter_stages: while dim <= input_length { ...; dim <<= 1 }
RECURSIVE DimStages(_, _, _, _)
DimStages(dim, input_length, batch_size, uniform_id) ==
    IF dim <= input_length
    THEN LET stages == BlockStages(dim \div 2, dim, batch_size, uniform_id)
         IN  stages \o DimStages(2 * dim, input_length, batch_size,
                                 uniform_id + Len(stages))
    ELSE <<>>

\* get_bit_sorter_stages as a function, for data_length up to 2^30, where
\* dim <<= 1 loses no bit; its loops step by step, in u32, are the scenario
\* of get_bit_sorter_stages further down
get_bit_sorter_stages(data_length, batch_size) ==
    DimStages(2, next_power_of_two(data_length, 1), batch_size, 1)

\* create_initial_index_buffer: 0, 1, ..., data_length - 1
create_initial_index_buffer(data_length) == [it \in 0..(data_length - 1) |-> it]

\* One bitonic_sort pass over the buffers of n entries that build allocates.
\* The thread of entry k has the partner k xor block; the pair is put in
\* ascending order of cell hash where (k and dim) = 0 at its lower entry, in
\* descending order elsewhere.  A partner beyond the buffer is no entry: the
\* thread leaves its own entry as it is.
bitonic_sort(buffers, bit_sorter, n) ==
    LET block == bit_sorter.block
        dim == bit_sorter.dim
        keys == buffers.particle_cell_indicies
        partner(k) == IF (k \div block) % 2 = 0 THEN k + block ELSE k - block
        ascending(k) == (k \div dim) % 2 = 0
        swaps(k) ==
            LET j == partner(k)
                lo == IF k < j THEN k ELSE j
                hi == IF k < j THEN j ELSE k
            IN  /\ j < n
                /\ IF ascending(lo) THEN keys[lo] > keys[hi] ELSE keys[lo] < keys[hi]
        source(k) == IF swaps(k) THEN partner(k) ELSE k
    IN  [buffers EXCEPT
            !.particle_indicies = [k \in 0..(n - 1) |-> buffers.particle_indicies[source(k)]],
            !.particle_cell_indicies = [k \in 0..(n - 1) |-> keys[source(k)]]]

(***************************************************************************)
(* Scenario: the bitonic sort passes on any cell hashes, for a buffer of   *)
(* any length up to MaxParticles.  Here particles holds the buffers of the *)
(* worker and props the FluidStaticProps the passes read.                  *)
(***************************************************************************)
MaxParticles == 3
MaxHash == 2

SortStages == get_bit_sorter_stages(props.num_particles,
                                    get_batch_size(props.num_particles))

SortInit ==
    /\ \E n \in 1..MaxParticles :
          /\ props = [num_particles |-> n]
          /\ \E keys \in [0..(n - 1) -> 0..MaxHash] :
                particles = [particle_indicies |-> create_initial_index_buffer(n),
                             particle_cell_indicies |-> keys]
    /\ pc = 1
    /\ history = <<particles>>
    /\ gravity = DefaultGravity
    /\ container = DefaultContainer
    /\ NoApp
    /\ NoKernel

\* the next bitonic_sort pass runs
SortPass ==
    /\ pc <= Len(SortStages)
    /\ particles' = bitonic_sort(particles, SortStages[pc].bit_sorter, props.num_particles)
    /\ pc' = pc + 1
    /\ UNCHANGED <<props, gravity, container, state, next_state, commands, sched,
                   history, kargs, kres>>

SortNext == SortPass

SpecSort == SortInit /\ [][SortNext]_vars

SortDone == pc > Len(SortStages)

\* C12: after the passes of every stage of get_bit_sorter_stages, in order, the
\* buffers are sorted by cell hash, for every particle count: the hashes
\* ascend along the buffer and every particle index still stands next to its
\* own hash.
SortedByHash ==
    SortDone =>
        LET n == props.num_particles
            keys == particles.particle_cell_indicies
        IN  /\ \A a, b \in 0..(n - 1) : a < b => keys[a] <= keys[b]
            /\ \A a \in 0..(n - 1) :
                   keys[a] = history[1].particle_cell_indicies[particles.particle_indicies[a]]

(***************************************************************************)
(* The spatial index of the compute variant.  Positions are points with    *)
(* integer coordinates, in a unit of which smoothing_radius is a whole     *)
(* number, so that cells and squared distances are exact.                  *)
(***************************************************************************)
Vec3(x, y, z) == [x |-> x, y |-> y, z |-> z]

\* the square of Vec3::distance
distance_squared(a, b) ==
    (a.x - b.x) * (a.x - b.x) + (a.y - b.y) * (a.y - b.y) + (a.z - b.z) * (a.z - b.z)

\* the grid cell of a position: floor(position / smoothing_radius)
cell_of(position, smoothing_radius) ==
    Vec3(position.x \div smoothing_radius, position.y \div smoothing_radius,
         position.z \div smoothing_radius)

\* the hash of a cell: a multiply by large primes, reduced modulo the table size
hash_cell(cell, table_size) ==
    (cell.x * 15823 + cell.y * 9737333 + cell.z * 440817757) % table_size

\* hash_particles: entry i is particle i with the hash of its cell
hash_particles(buffers, n, smoothing_radius) ==
    [buffers EXCEPT
        !.particle_indicies = [i \in 0..(n - 1) |-> i],
        !.particle_cell_indicies =
            [i \in 0..(n - 1) |->
                hash_cell(cell_of(buffers.predicted_positions[i], smoothing_radius), n)]]

\* the entries at which a run of hash h starts
CellStarts(keys, n, h) ==
    {k \in 0..(n - 1) : keys[k] = h /\ (k = 0 \/ keys[k - 1] # h)}

\* calculate_cell_offsets: the thread of every entry whose hash differs from
\* the hash before it stores its place as the offset of its hash.  The
\* threads of two runs of one hash store to one slot, and either store may
\* be the one that lasts: the set of the buffers the pass can leave.
calculate_cell_offsets(buffers, n) ==
    {[buffers EXCEPT !.cell_offsets = offsets] :
        offsets \in {f \in [0..(n - 1) -> 0..(n - 1)] :
            \A h \in 0..(n - 1) :
                LET starts == CellStarts(buffers.particle_cell_indicies, n, h)
                IN  IF starts = {} THEN f[h] = buffers.cell_offsets[h]
                    ELSE f[h] \in starts}}

\* the scan of one cell: the particles from entry idx on, while the hash is h
RECURSIVE ScanRun(_, _, _, _)
ScanRun(buffers, n, h, idx) ==
    IF idx < n /\ buffers.particle_cell_indicies[idx] = h
    THEN {buffers.particle_indicies[idx]} \cup ScanRun(buffers, n, h, idx + 1)
    ELSE {}

\* the 3x3x3 block of cells around a cell
CellBlock(cell) ==
    {Vec3(cell.x + dx, cell.y + dy, cell.z + dz) : dx, dy, dz \in {-1, 0, 1}}

\* the neighbour loop of update_density for particle i: the particles of the
\* 27 cells around its cell that pass the distance test
IndexNeighbours(buffers, n, smoothing_radius, i) ==
    LET position == buffers.predicted_positions[i]
        candidates ==
            UNION {ScanRun(buffers, n, hash_cell(cell, n),
                           buffers.cell_offsets[hash_cell(cell, n)]) :
                       cell \in CellBlock(cell_of(position, smoothing_radius))}
    IN  {k \in candidates :
            distance_squared(position, buffers.predicted_positions[k])
                <= smoothing_radius * smoothing_radius}

\* the neighbour loop of update_density_and_pressure (fluid.rs): every particle,
\* of which the kernels keep those within the radius
AllPairsNeighbours(positions, n, smoothing_radius, i) ==
    {k \in 0..(n - 1) :
        distance_squared(positions[i], positions[k]) <= smoothing_radius * smoothing_radius}

(***************************************************************************)
(* Scenario: one rebuild of the spatial index and one neighbour query, for *)
(* up to MaxParticles particles on a grid of points.                       *)
(***************************************************************************)
MaxIndexCoord == 3

IndexPoints == {Vec3(x, y, 0) : x \in -1..MaxIndexCoord, y \in {0, 2}}

IndexInit ==
    /\ \E n \in 1..MaxParticles :
          /\ props = [num_particles |-> n, smoothing_radius |-> 2]
          /\ \E points \in [0..(n - 1) -> IndexPoints] :
                particles = [predicted_positions |-> points,
                             particle_indicies |-> create_initial_index_buffer(n),
                             particle_cell_indicies |-> create_initial_index_buffer(n),
                             cell_offsets |-> create_initial_index_buffer(n)]
    /\ pc = [pass |-> "hash_particles", stage |-> 1]
    /\ history = <<>>
    /\ gravity = DefaultGravity
    /\ container = DefaultContainer
    /\ NoApp
    /\ NoKernel

IndexHash ==
    /\ pc.pass = "hash_particles"
    /\ particles' = hash_particles(particles, props.num_particles, props.smoothing_radius)
    /\ pc' = [pc EXCEPT !.pass = "bitonic_sort"]
    /\ UNCHANGED <<props, gravity, container, state, next_state, commands, sched,
                   history, kargs, kres>>

IndexSort ==
    /\ pc.pass = "bitonic_sort"
    /\ pc.stage <= Len(SortStages)
    /\ particles' = bitonic_sort(particles, SortStages[pc.stage].bit_sorter,
                                 props.num_particles)
    /\ pc' = [pc EXCEPT !.stage = @ + 1]
    /\ UNCHANGED <<props, gravity, container, state, next_state, commands, sched,
                   history, kargs, kres>>

IndexOffsets ==
    /\ pc.pass = "bitonic_sort"
    /\ pc.stage > Len(SortStages)
    /\ particles' \in calculate_cell_offsets(particles, props.num_particles)
    /\ pc' = [pc EXCEPT !.pass = "update_density"]
    /\ UNCHANGED <<props, gravity, container, state, next_state, commands, sched,
                   history, kargs, kres>>

\* update_density: the neighbours each particle's loop visits
IndexQuery ==
    /\ pc.pass = "update_density"
    /\ history' = [i \in 0..(props.num_particles - 1) |->
                      IndexNeighbours(particles, props.num_particles,
                                      props.smoothing_radius, i)]
    /\ pc' = [pc EXCEPT !.pass = "update_pressure_force"]
    /\ UNCHANGED <<particles, props, gravity, container, state, next_state, commands,
                   sched, kargs, kres>>

IndexNext ==
    \/ IndexHash
    \/ IndexSort
    \/ IndexOffsets
    \/ IndexQuery

SpecIndex == IndexInit /\ [][IndexNext]_vars

\* C13: for every particle, the neighbours within smoothing_radius found
\* through the cell hashes, the sort, cell_offsets and the scan of the block
\* of cells are the neighbours the all-pairs distance check finds.
NeighboursEqualAllPairs ==
    pc.pass = "update_pressure_force" =>
        \A i \in 0..(props.num_particles - 1) :
            history[i] = AllPairsNeighbours(particles.predicted_positions,
                                            props.num_particles,
                                            props.smoothing_radius, i)

(***************************************************************************)
(* Scenario: get_batch_size as a pure function of num_particles.  The      *)
(* counts are those around the multiples of WORKGROUP_SIZE up to MaxBatch  *)
(* workgroups, and the greatest counts the checker's integers hold         *)
(* (u32 reaches 2^32 - 1, the checker 2^31 - 1).                           *)
(***************************************************************************)
MaxBatch == 16

BatchCounts ==
    {q * WORKGROUP_SIZE + d : q \in 0..MaxBatch, d \in {0, 1, 2, 511, 1022, 1023}}
        \cup {2147483647 - d : d \in {0, 1, 1022, 1023, 1024}}

BatchInit ==
    /\ \E n \in BatchCounts : props = [num_particles |-> n]
    /\ pc = "get_batch_size"
    /\ history = <<>>
    /\ particles = <<>>
    /\ gravity = DefaultGravity
    /\ container = DefaultContainer
    /\ NoApp
    /\ NoKernel

BatchEval ==
    /\ pc = "get_batch_size"
    /\ history' = <<get_batch_size(props.num_particles)>>
    /\ pc' = "returned"
    /\ UNCHANGED <<particles, props, gravity, container, state, next_state, commands,
                   sched, kargs, kres>>

BatchNext == BatchEval

SpecBatch == BatchInit /\ [][BatchNext]_vars

\* C28: get_batch_size returns the least b with b * WORKGROUP_SIZE >=
\* num_particles (0 for 0), a value of at most 2^22, so the invocation of the
\* last particle index, num_particles - 1, is in a workgroup below b.  The
\* products are compared limb by limb (num_particles = hi * 2^16 + lo), which
\* keeps them within the integers.
BatchSizeCeil ==
    pc = "returned" =>
        LET n == props.num_particles
            b == history[1]
            hi == n \div 65536
            lo == n % 65536
            covers(c) == (c - 64 * hi) * WORKGROUP_SIZE >= lo
        IN  /\ b >= 0 /\ b <= 4194304
            /\ covers(b)
            /\ b > 0 => ~covers(b - 1)
            /\ n = 0 => b = 0
            /\ n > 0 => (n - 1) \div WORKGROUP_SIZE < b

\* a count that is no multiple of WORKGROUP_SIZE, rounded up
BatchSizeCeilWitness ==
    /\ pc = "returned"
    /\ props.num_particles % WORKGROUP_SIZE > 0
    /\ props.num_particles > WORKGROUP_SIZE
    /\ history[1] = props.num_particles \div WORKGROUP_SIZE + 1

(***************************************************************************)
(* Scenario: get_bit_sorter_stages step by step, in u32.  A u32 is a pair  *)
(* <<hi, lo>> of 16-bit halves, hi * 2^16 + lo.                            *)
(***************************************************************************)
U32(n) == <<n \div 65536, n % 65536>>

\* x << 1: the bit shifted out of the top is lost
U32Shl1(x) == <<(2 * x[1] + x[2] \div 32768) % 65536, (2 * x[2]) % 65536>>

\* x >> 1
U32Shr1(x) == <<x[1] \div 2, x[2] \div 2 + (x[1] % 2) * 32768>>

U32Le(a, b) == a[1] < b[1] \/ (a[1] = b[1] /\ a[2] <= b[2])

\* 2^k for k in 0..31
U32Pow2(k) == IF k < 16 THEN <<0, 2 ^ k>> ELSE <<2 ^ (k - 16), 0>>

\* u32::checked_next_power_of_two: Some(least power of two >= n), or None
\* when that power is 2^32
checked_next_power_of_two(n) ==
    IF \E k \in 0..31 : U32Le(n, U32Pow2(k))
    THEN [some |-> TRUE,
          pot |-> U32Pow2(CHOOSE k \in 0..31 :
                              /\ U32Le(n, U32Pow2(k))
                              /\ \A j \in 0..(k - 1) : ~U32Le(n, U32Pow2(j)))]
    ELSE [some |-> FALSE, pot |-> U32(0)]

MaxStageLength == 17

\* the data lengths of the scenario: the small ones, and those around 2^30,
\* 2^31 and 2^32
StageLengths ==
    {U32(n) : n \in 0..MaxStageLength}
        \cup {<<16384, 0>>, <<16384, 1>>, <<32768, 0>>, <<32768, 1>>, <<65535, 65535>>}

StagesInit ==
    /\ \E n \in StageLengths : props = [data_length |-> n, batch_size |-> 1]
    /\ pc = [at |-> "call"]
    /\ history = <<>>
    /\ particles = <<>>
    /\ gravity = DefaultGravity
    /\ container = DefaultContainer
    /\ NoApp
    /\ NoKernel

\* let input_length = ...; let mut uniform_id = 1; let mut dim = 2;
StagesEnter ==
    /\ pc.at = "call"
    /\ LET pot == checked_next_power_of_two(props.data_length)
       IN  pc' = [at |-> "while dim",
                  input_length |-> IF pot.some THEN pot.pot ELSE props.data_length,
                  uniform_id |-> 1,
                  dim |-> U32(2),
                  block |-> U32(0)]
    /\ UNCHANGED <<particles, props, gravity, container, state, next_state, commands,
                   sched, history, kargs, kres>>

\* while dim <= input_length { let mut block = dim >> 1; ... }; return
StagesWhileDim ==
    /\ pc.at = "while dim"
    /\ pc' = IF U32Le(pc.dim, pc.input_length)
             THEN [pc EXCEPT !.at = "while block", !.block = U32Shr1(pc.dim)]
             ELSE [pc EXCEPT !.at = "return"]
    /\ UNCHANGED <<particles, props, gravity, container, state, next_state, commands,
                   sched, history, kargs, kres>>

\* while block > 0 { push; block >>= 1; uniform_id += 1 }; dim <<= 1
StagesWhileBlock ==
    /\ pc.at = "while block"
    /\ IF pc.block # U32(0)
       THEN /\ history' = Append(history,
                                 [bit_sorter |-> [block |-> pc.block, dim |-> pc.dim],
                                  workgroups |-> <<props.batch_size, 1, 1>>,
                                  uniform_name |-> <<"bit_sorter", pc.uniform_id>>])
            /\ pc' = [pc EXCEPT !.block = U32Shr1(pc.block), !.uniform_id = @ + 1]
       ELSE /\ history' = history
            /\ pc' = [pc EXCEPT !.at = "while dim", !.dim = U32Shl1(pc.dim)]
    /\ UNCHANGED <<particles, props, gravity, container, state, next_state, commands,
                   sched, kargs, kres>>

StagesNext ==
    \/ StagesEnter
    \/ StagesWhileDim
    \/ StagesWhileBlock

\* the call runs on: no step of it waits for ever
SpecStages == StagesInit /\ [][StagesNext]_vars /\ WF_vars(StagesNext)

\* C23: get_bit_sorter_stages terminates for every u32 data_length: every call
\* returns.
StagesTerminate == <>(pc.at = "return")

(***************************************************************************)
(* Scenario: one invocation of update_fluid_props (hud.rs), for any keys   *)
(* held, on the default tunables with the smoothing radius any number of   *)
(* steps above zero.  pc keeps the keys held and the resources as they     *)
(* were before the invocation.                                             *)
(***************************************************************************)
MaxHeld == 3
MaxRadiusSteps == 2

\* the keys held in a frame: those update_fluid_props reads and one it does
\* not read
HeldKeys ==
    {pressed \in SUBSET ({Keys[k] : k \in 1..Len(Keys)} \cup {"Space"}) :
        Cardinality(pressed) <= MaxHeld}

KeysInit ==
    /\ \E k \in 1..MaxRadiusSteps :
          props = [DefaultProps EXCEPT
                      !.smoothing_radius = RMul(R(k, 1), FLUID_PROPS_CHANGE_STEP)]
    /\ gravity = DefaultGravity
    /\ container = DefaultContainer
    /\ \E pressed \in HeldKeys : pc = [at |-> "Update", pressed |-> pressed]
    /\ particles = <<>>
    /\ history = <<>>
    /\ NoApp
    /\ NoKernel

\* the invocation of the frame
KeysUpdate ==
    /\ pc.at = "Update"
    /\ LET res == update_fluid_props(props, gravity, pc.pressed)
       IN  /\ props' = res.props
           /\ gravity' = res.gravity
    /\ pc' = [at |-> "updated", pressed |-> pc.pressed, props |-> props,
              gravity |-> gravity]
    /\ UNCHANGED <<particles, container, state, next_state, commands, sched, history,
                   kargs, kres>>

KeysNext == KeysUpdate

SpecKeys == KeysInit /\ [][KeysNext]_vars

\* the tunable each key of the chain edits, and the direction
KeyTunable ==
    <<"smoothing_radius", "smoothing_radius", "gravity.y", "gravity.y",
      "pressure_scalar", "pressure_scalar", "near_pressure_scalar",
      "near_pressure_scalar", "target_density", "target_density">>

KeyDirection == <<-1, 1, 1, -1, -1, 1, -1, 1, -1, 1>>

\* the condition of the k-th branch of the chain
BranchCondition(k, fp, pressed) ==
    /\ Keys[k] \in pressed
    /\ k = 1 => RGt(RSub(fp.smoothing_radius, FLUID_PROPS_CHANGE_STEP), Zero)

\* C25: an invocation of update_fluid_props applies exactly the first branch
\* of the chain Digit1 (guarded), Digit2, Digit3, Digit4, Q, W, A, S, Z, X
\* whose condition holds: the tunable of that branch changes by exactly one
\* step, every other field of the properties and of gravity is as before;
\* with no branch holding nothing changes; radius, mass and collision_damping
\* are as before in every case.
OneTunablePerInvocation ==
    pc.at = "updated" =>
        LET holds == {k \in 1..Len(Keys) : BranchCondition(k, pc.props, pc.pressed)}
            first == CHOOSE k \in holds : \A j \in holds : k <= j
            change == RMul(R(KeyDirection[first], 1), FLUID_PROPS_CHANGE_STEP)
        IN  /\ props.radius = pc.props.radius
            /\ props.mass = pc.props.mass
            /\ props.collision_damping = pc.props.collision_damping
            /\ gravity.x = pc.gravity.x
            /\ IF holds = {}
               THEN props = pc.props /\ gravity = pc.gravity
               ELSE IF KeyTunable[first] = "gravity.y"
               THEN /\ props = pc.props
                    /\ RSub(gravity.y, pc.gravity.y) = change
               ELSE /\ gravity = pc.gravity
                    /\ \A f \in DOMAIN props \ {KeyTunable[first]} :
                          props[f] = pc.props[f]
                    /\ RSub(props[KeyTunable[first]], pc.props[KeyTunable[first]])
                           = change

\* Digit1 held with the radius one step above zero, and two later keys of the
\* chain held with it: the earlier of the two, KeyW, was applied
OneTunablePerInvocationWitness ==
    /\ pc.at = "updated"
    /\ pc.pressed = {"Digit1", "KeyW", "KeyX"}
    /\ pc.props.smoothing_radius = FLUID_PROPS_CHANGE_STEP
    /\ props.smoothing_radius = pc.props.smoothing_radius
    /\ props.pressure_scalar # pc.props.pressure_scalar
    /\ props.target_density = pc.props.target_density

(***************************************************************************)
(* Scenario: the container rotator (fluid_container.rs).  Frame after      *)
(* frame in GameState::InGame, Update runs change_rotator_state and        *)
(* rotate_container, in either order, on the frame's keyboard input.  A    *)
(* rotation is the product of the axis rotations applied so far, kept as   *)
(* the sequence of its factors <<axis, angle>>, adjacent factors about the *)
(* same axis merged.  pc holds the FluidContainerRotator resource, the     *)
(* frame's input, the systems still to run in the frame, and the rotator   *)
(* state at the start with the number of presses since.                    *)
(***************************************************************************)
FLUID_CONTAINER_ROTATOR_STEP == R(5, 1000)

RotatorStates == <<"Idle", "AroundX", "AroundY", "AroundZ">>

\* impl Default for FluidContainerRotator
DefaultRotator == [step |-> FLUID_CONTAINER_ROTATOR_STEP, state |-> "Idle"]

\* rotation * Quat::from_rotation_<axis>(angle)
rotate_local(rotation, axis, angle) ==
    IF rotation # <<>> /\ rotation[Len(rotation)][1] = axis
    THEN LET sum == RAdd(rotation[Len(rotation)][2], angle)
             front == SubSeq(rotation, 1, Len(rotation) - 1)
         IN  IF sum = Zero THEN front ELSE Append(front, <<axis, sum>>)
    ELSE Append(rotation, <<axis, angle>>)

\* change_rotator_state: a just-pressed ShiftLeft moves the state one place on
change_rotator_state(rotator, just_pressed) ==
    IF "ShiftLeft" \in just_pressed
    THEN [rotator EXCEPT !.state =
             CASE rotator.state = "Idle" -> "AroundX"
               [] rotator.state = "AroundX" -> "AroundY"
               [] rotator.state = "AroundY" -> "AroundZ"
               [] rotator.state = "AroundZ" -> "Idle"]
    ELSE rotator

\* rotate_container with the two arrow keys tested in the other order
rotate_container_right_first(c, rotator, pressed) ==
    IF rotator.state = "Idle" THEN c
    ELSE IF ~("ArrowLeft" \in pressed) /\ ~("ArrowRight" \in pressed) THEN c
    ELSE LET angle == IF "ArrowRight" \in pressed THEN rotator.step
                      ELSE RNeg(rotator.step)
         IN  CASE rotator.state = "AroundX" ->
                    [c EXCEPT !.rotation = rotate_local(@, "X", angle)]
               [] rotator.state = "AroundY" ->
                    [c EXCEPT !.rotation = rotate_local(@, "Y", angle)]
               [] rotator.state = "AroundZ" ->
                    [c EXCEPT !.rotation = rotate_local(@, "Z", angle)]

\* rotate_container: nothing when Idle or with neither arrow key held; else
\* the angle is -step for ArrowLeft, step for ArrowRight alone, about the
\* local axis of the state
rotate_container(c, rotator, pressed) ==
    IF rotator.state = "Idle" THEN c
    ELSE IF ~("ArrowLeft" \in pressed) /\ ~("ArrowRight" \in pressed) THEN c
    ELSE LET angle == IF "ArrowLeft" \in pressed THEN RNeg(rotator.step)
                      ELSE rotator.step
         IN  CASE rotator.state = "AroundX" ->
                    [c EXCEPT !.rotation = rotate_local(@, "X", angle)]
               [] rotator.state = "AroundY" ->
                    [c EXCEPT !.rotation = rotate_local(@, "Y", angle)]
               [] rotator.state = "AroundZ" ->
                    [c EXCEPT !.rotation = rotate_local(@, "Z", angle)]

MaxRotatorFrames == 4

\* the keyboard input of a frame
RotatorInputs ==
    [just_pressed : SUBSET {"ShiftLeft"}, pressed : SUBSET {"ArrowLeft", "ArrowRight"}]

RotatorInit ==
    /\ container = [position |-> DefaultContainer.position,
                    size |-> DefaultContainer.size,
                    rotation |-> <<>>]
    /\ \E k \in 1..Len(RotatorStates) :
          pc = [rotator |-> [DefaultRotator EXCEPT !.state = RotatorStates[k]],
                start |-> RotatorStates[k],
                presses |-> 0,
                frame |-> 0,
                input |-> [just_pressed |-> {}, pressed |-> {}],
                todo |-> {}]
    /\ props = DefaultProps
    /\ gravity = DefaultGravity
    /\ particles = <<>>
    /\ history = <<>>
    /\ state = "InGame"
    /\ next_state = "None"
    /\ commands = <<>>
    /\ sched = {}
    /\ NoKernel

\* a new frame: its keyboard input, and InGameSet::UserInput to run
RotatorFrame ==
    /\ pc.todo = {}
    /\ pc.frame < MaxRotatorFrames
    /\ \E input \in RotatorInputs :
          pc' = [pc EXCEPT !.frame = @ + 1, !.input = input,
                           !.todo = {"change_rotator_state", "rotate_container"}]
    /\ UNCHANGED <<particles, props, gravity, container, state, next_state, commands,
                   sched, history, kargs, kres>>

RunChangeRotatorState ==
    /\ "change_rotator_state" \in pc.todo
    /\ pc' = [pc EXCEPT !.rotator = change_rotator_state(@, pc.input.just_pressed),
                        !.presses = IF "ShiftLeft" \in pc.input.just_pressed
                                    THEN @ + 1 ELSE @,
                        !.todo = @ \ {"change_rotator_state"}]
    /\ UNCHANGED <<particles, props, gravity, container, state, next_state, commands,
                   sched, history, kargs, kres>>

RunRotateContainer ==
    /\ "rotate_container" \in pc.todo
    /\ container' = rotate_container(container, pc.rotator, pc.input.pressed)
    /\ pc' = [pc EXCEPT !.todo = @ \ {"rotate_container"}]
    /\ UNCHANGED <<particles, props, gravity, state, next_state, commands, sched,
                   history, kargs, kres>>

RotatorNext ==
    \/ RotatorFrame
    \/ RunChangeRotatorState
    \/ RunRotateContainer

SpecRotator == RotatorInit /\ [][RotatorNext]_vars

\* the state after s on the cycle Idle -> AroundX -> AroundY -> AroundZ -> Idle
RotatorSuccessor(s) ==
    LET k == CHOOSE i \in 1..Len(RotatorStates) : RotatorStates[i] = s
    IN  RotatorStates[(k % Len(RotatorStates)) + 1]

RotatorAxis(s) ==
    CASE s = "AroundX" -> "X" [] s = "AroundY" -> "Y" [] s = "AroundZ" -> "Z"

\* C26: in every step, (1) change_rotator_state with ShiftLeft just pressed
\* moves rotator.state to its successor on the cycle, and no other step
\* changes it; (2) after a number of presses that is a multiple of four the
\* state is the one at the start; (3) rotate_container with the state not Idle
\* and an arrow key held multiplies the rotation by the rotation about the
\* axis of the state, by -step when ArrowLeft is held and by +step when only
\* ArrowRight is, and leaves position and size; no other step changes the
\* container.
RotatorStateMachine ==
    [][LET changes == "change_rotator_state" \in pc.todo
                          /\ "change_rotator_state" \notin pc'.todo
                          /\ "ShiftLeft" \in pc.input.just_pressed
           rotates == "rotate_container" \in pc.todo
                          /\ "rotate_container" \notin pc'.todo
                          /\ pc.rotator.state # "Idle"
                          /\ pc.input.pressed # {}
           angle == IF "ArrowLeft" \in pc.input.pressed
                    THEN RNeg(FLUID_CONTAINER_ROTATOR_STEP)
                    ELSE FLUID_CONTAINER_ROTATOR_STEP
       IN  /\ pc'.rotator.state = IF changes THEN RotatorSuccessor(pc.rotator.state)
                                  ELSE pc.rotator.state
           /\ pc'.rotator.step = pc.rotator.step
           /\ pc'.presses % 4 = 0 => pc'.rotator.state = pc'.start
           /\ container' = IF rotates
                           THEN [container EXCEPT !.rotation =
                                    rotate_local(@, RotatorAxis(pc.rotator.state), angle)]
                           ELSE container
           /\ rotates => container'.rotation # container.rotation]_vars

\* four presses have brought the state back to AroundY, and the container has
\* been turned about more than one axis, the last time with both arrow keys
\* held
RotatorStateMachineWitness ==
    /\ pc.presses = 4
    /\ pc.start = "AroundY"
    /\ pc.rotator.state = "AroundY"
    /\ pc.todo = {}
    /\ pc.input.pressed = {"ArrowLeft", "ArrowRight"}
    /\ Len(container.rotation) >= 2

(***************************************************************************)
(* Scenario: the compute variant as an application (fluid_compute.rs).     *)
(* FluidWorker::build has filled the worker's buffers and the initial      *)
(* positions; frame after frame the state transition, the Update systems   *)
(* of the state and the worker's run in PostUpdate follow one another.     *)
(* A buffer is a function on 0 .. n - 1.  pc holds the worker (its         *)
(* buffers, the staging copy read_vec returns, its uniforms, ready(), and  *)
(* the number of write and write_slice calls made on it), the initial      *)
(* positions, the frame's input, the steps of the frame still to run, the  *)
(* step that ran last, and the number of Space presses that found the      *)
(* worker not ready; particles are the entities setup spawns.              *)
(***************************************************************************)
BufferNames ==
    <<"positions", "densities", "pressures", "velocities", "accelerations",
      "predicted_positions", "particle_indicies", "particle_cell_indicies",
      "cell_offsets">>

\* FluidWorker::create_initial_buffer::<T>: data_length times T::default()
create_initial_buffer(default, data_length) == [it \in 0..(data_length - 1) |-> default]

\* the contents FluidWorker::build gives the nine buffers
InitialBuffers(points, num_particles) ==
    [positions |-> points,
     densities |-> create_initial_buffer(Vec2_ZERO, num_particles),
     pressures |-> create_initial_buffer(Vec2_ZERO, num_particles),
     velocities |-> create_initial_buffer(Vec3(0, 0, 0), num_particles),
     accelerations |-> create_initial_buffer(Vec3(0, 0, 0), num_particles),
     predicted_positions |-> points,
     particle_indicies |-> create_initial_index_buffer(num_particles),
     particle_cell_indicies |-> create_initial_index_buffer(num_particles),
     cell_offsets |-> create_initial_index_buffer(num_particles)]

\* the uniforms update writes
WorkerUniforms(fp, g) ==
    [num_particles |-> fp.num_particles, fluid_props |-> fp, gravity |-> g]

\* setup with the labels counted from one
setup_from_one(positions) ==
    [k \in 1..Cardinality(DOMAIN positions) |->
        [label |-> k, translation |-> positions[k - 1]]]

\* setup: one entity for each initial position, in order, labelled with a
\* counter from 0
setup(positions) ==
    [k \in 1..Cardinality(DOMAIN positions) |->
        [label |-> k - 1, translation |-> positions[k - 1]]]

\* update: nothing when the worker is not ready; else the four uniforms are
\* written and every entity takes positions[label] from the staging copy.
\* An index outside the copy is a panic.
update(entities, worker, fp, g) ==
    IF ~worker.ready THEN [entities |-> entities, worker |-> worker]
    ELSE [entities |->
              [k \in DOMAIN entities |->
                  [entities[k] EXCEPT !.translation =
                      IF entities[k].label \in DOMAIN worker.staging
                      THEN worker.staging[entities[k].label]
                      ELSE "panic"]],
          worker |-> [worker EXCEPT !.uniforms = WorkerUniforms(fp, g),
                                    !.writes = @ + 4]]

\* despawn_liquid of fluid_compute.rs with the test of worker.ready() after
\* next_state.set
fluid_compute_despawn_liquid_eager(worker, queued, positions, just_pressed) ==
    IF ~("Space" \in just_pressed) THEN [worker |-> worker, next_state |-> queued]
    ELSE IF ~worker.ready THEN [worker |-> worker, next_state |-> "GameOver"]
    ELSE [worker |-> [worker EXCEPT
                         !.buffers = InitialBuffers(positions, Cardinality(DOMAIN positions)),
                         !.writes = @ + Len(BufferNames)],
          next_state |-> "GameOver"]

\* despawn_liquid of fluid_compute.rs: nothing unless Space is just pressed
\* and the worker is ready; else GameOver is queued and each of the nine
\* buffers is written with its initial contents
fluid_compute_despawn_liquid(worker, queued, positions, just_pressed) ==
    IF ~("Space" \in just_pressed) \/ ~worker.ready
    THEN [worker |-> worker, next_state |-> queued]
    ELSE [worker |-> [worker EXCEPT
                         !.buffers = InitialBuffers(positions, Cardinality(DOMAIN positions)),
                         !.writes = @ + Len(BufferNames)],
          next_state |-> "GameOver"]

\* what the passes of a run leave in the buffers: every particle moved, every
\* other entry set, the index buffers turned round
Stirred(buffers, num_particles) ==
    [positions |-> [k \in 0..(num_particles - 1) |->
                       Vec3(buffers.positions[k].x, buffers.positions[k].y - 1,
                            buffers.positions[k].z)],
     densities |-> create_initial_buffer(Vec2_ONE, num_particles),
     pressures |-> create_initial_buffer(Vec2_ONE, num_particles),
     velocities |-> create_initial_buffer(Vec3(0, -1, 0), num_particles),
     accelerations |-> create_initial_buffer(Vec3(0, -1, 0), num_particles),
     predicted_positions |-> [k \in 0..(num_particles - 1) |->
                       Vec3(buffers.positions[k].x, buffers.positions[k].y - 2,
                            buffers.positions[k].z)],
     particle_indicies |-> [k \in 0..(num_particles - 1) |-> num_particles - 1 - k],
     particle_cell_indicies |-> create_initial_buffer(0, num_particles),
     cell_offsets |-> create_initial_buffer(num_particles, num_particles)]

MaxWorkerParticles == 2
MaxWorkerFrames == 4

WorkerPoints == {Vec3(0, 0, 0), Vec3(1, 0, 0)}

\* the keyboard and the Play button of a frame
WorkerInputs == [just_pressed : SUBSET {"Space"}, play : BOOLEAN]

WorkerInit ==
    /\ \E n \in 0..MaxWorkerParticles :
          \E points \in [0..(n - 1) -> WorkerPoints] :
              /\ props = [num_particles |-> n]
              /\ pc = [worker |-> [buffers |-> InitialBuffers(points, n),
                                   staging |-> points,
                                   uniforms |-> WorkerUniforms(props, DefaultGravity),
                                   ready |-> FALSE,
                                   writes |-> 0],
                       positions |-> points,
                       frame |-> 0,
                       input |-> [just_pressed |-> {}, play |-> FALSE],
                       todo |-> <<>>,
                       ran |-> "build",
                       dropped |-> 0]
    /\ particles = <<>>
    /\ gravity = DefaultGravity
    /\ container = DefaultContainer
    /\ history = <<>>
    /\ NoApp
    /\ NoKernel

\* StateTransition at the start of a frame: the queued state is entered;
\* OnExit(GameState::Menu) runs setup, whose batch is spawned
WorkerStateTransition ==
    /\ pc.todo = <<>>
    /\ next_state # "None"
    /\ state' = next_state
    /\ next_state' = "None"
    /\ particles' = IF state = "Menu" /\ next_state # "Menu"
                    THEN particles \o setup(pc.positions)
                    ELSE particles
    /\ pc' = [pc EXCEPT !.ran = "StateTransition"]
    /\ UNCHANGED <<props, gravity, container, commands, sched, history, kargs, kres>>

\* a frame: its input, the Update systems of the state in the order of the
\* sets (DespawnEntities, UserInput, EntityUpdates), and the worker's run
WorkerFrame ==
    /\ pc.todo = <<>>
    /\ next_state = "None"
    /\ pc.frame < MaxWorkerFrames
    /\ \E input \in WorkerInputs :
          pc' = [pc EXCEPT !.frame = @ + 1, !.input = input, !.ran = "frame",
                           !.todo = CASE state = "Menu" -> <<"menu_action", "run">>
                                      [] state = "InGame" ->
                                            <<"despawn_liquid", "update", "run">>
                                      [] state = "GameOver" ->
                                            <<"transition_to_in_game", "run">>]
    /\ UNCHANGED <<particles, props, gravity, container, state, next_state, commands,
                   sched, history, kargs, kres>>

\* menu_action: the Play button queues InGame
RunMenuAction ==
    /\ pc.todo # <<>> /\ Head(pc.todo) = "menu_action"
    /\ next_state' = IF pc.input.play THEN "InGame" ELSE next_state
    /\ pc' = [pc EXCEPT !.todo = Tail(@), !.ran = "menu_action"]
    /\ UNCHANGED <<particles, props, gravity, container, state, commands, sched,
                   history, kargs, kres>>

\* Update in GameState::GameOver: the game goes back to GameState::InGame
RunTransitionToInGame ==
    /\ pc.todo # <<>> /\ Head(pc.todo) = "transition_to_in_game"
    /\ next_state' = "InGame"
    /\ pc' = [pc EXCEPT !.todo = Tail(@), !.ran = "transition_to_in_game"]
    /\ UNCHANGED <<particles, props, gravity, container, state, commands, sched,
                   history, kargs, kres>>

RunDespawnLiquid ==
    /\ pc.todo # <<>> /\ Head(pc.todo) = "despawn_liquid"
    /\ LET res == fluid_compute_despawn_liquid(pc.worker, next_state, pc.positions,
                                 pc.input.just_pressed)
       IN  /\ next_state' = res.next_state
           /\ pc' = [pc EXCEPT !.worker = res.worker, !.todo = Tail(@),
                               !.ran = "despawn_liquid",
                               !.dropped = IF "Space" \in pc.input.just_pressed
                                                /\ ~pc.worker.ready
                                           THEN @ + 1 ELSE @]
    /\ UNCHANGED <<particles, props, gravity, container, state, commands, sched,
                   history, kargs, kres>>

RunUpdate ==
    /\ pc.todo # <<>> /\ Head(pc.todo) = "update"
    /\ LET res == update(particles, pc.worker, props, gravity)
       IN  /\ particles' = res.entities
           /\ pc' = [pc EXCEPT !.worker = res.worker, !.todo = Tail(@),
                               !.ran = "update"]
    /\ UNCHANGED <<props, gravity, container, state, next_state, commands, sched,
                   history, kargs, kres>>

\* PostUpdate, AppComputeWorker::run: the passes may have run over the
\* buffers; when the worker comes out ready the staging copy holds the
\* positions
RunWorker ==
    /\ pc.todo # <<>> /\ Head(pc.todo) = "run"
    /\ \E passes \in BOOLEAN, ready \in BOOLEAN :
          LET buffers == IF passes THEN Stirred(pc.worker.buffers, props.num_particles)
                         ELSE pc.worker.buffers
          IN  pc' = [pc EXCEPT !.worker.buffers = buffers,
                               !.worker.ready = ready,
                               !.worker.staging = IF ready THEN buffers.positions ELSE @,
                               !.todo = Tail(@),
                               !.ran = "run"]
    /\ UNCHANGED <<particles, props, gravity, container, state, next_state, commands,
                   sched, history, kargs, kres>>

WorkerNext ==
    \/ WorkerStateTransition
    \/ WorkerFrame
    \/ RunMenuAction
    \/ RunTransitionToInGame
    \/ RunDespawnLiquid
    \/ RunUpdate
    \/ RunWorker

SpecWorker == WorkerInit /\ [][WorkerNext]_vars

\* C24: an invocation of despawn_liquid either changes nothing (Space not
\* just pressed, or the worker not ready: no write on the worker, nothing
\* queued) or queues GameOver and writes each of the nine buffers, leaving
\* positions and predicted_positions the initial positions, densities,
\* pressures, velocities and accelerations zero and the three index buffers
\* the identity; GameOver is queued by no other step, so a press that came
\* while the worker was not ready has no effect in a later frame.
ResetAllOrNothing ==
    [][LET n == props.num_particles
           invoked == pc'.ran = "despawn_liquid"
           resets == "Space" \in pc.input.just_pressed /\ pc.worker.ready
       IN  /\ invoked /\ resets =>
                 /\ next_state' = "GameOver"
                 /\ pc'.worker.writes = pc.worker.writes + 9
                 /\ pc'.worker.buffers.positions = pc.positions
                 /\ pc'.worker.buffers.predicted_positions = pc.positions
                 /\ \A k \in 0..(n - 1) :
                       /\ pc'.worker.buffers.densities[k] = Vec2_ZERO
                       /\ pc'.worker.buffers.pressures[k] = Vec2_ZERO
                       /\ pc'.worker.buffers.velocities[k] = Vec3(0, 0, 0)
                       /\ pc'.worker.buffers.accelerations[k] = Vec3(0, 0, 0)
                       /\ pc'.worker.buffers.particle_indicies[k] = k
                       /\ pc'.worker.buffers.particle_cell_indicies[k] = k
                       /\ pc'.worker.buffers.cell_offsets[k] = k
                 /\ \A name \in DOMAIN pc'.worker.buffers :
                       DOMAIN pc'.worker.buffers[name] = 0..(n - 1)
           /\ invoked /\ ~resets =>
                 /\ next_state' = next_state
                 /\ pc'.worker = pc.worker
           /\ next_state' = "GameOver" /\ next_state # "GameOver" =>
                 invoked /\ resets]_vars

\* a reset of two particles' buffers, which the passes had changed, by a
\* press in a frame after one whose press found the worker not ready
ResetAllOrNothingWitness ==
    /\ pc.ran = "despawn_liquid"
    /\ next_state = "GameOver"
    /\ pc.dropped >= 1
    /\ props.num_particles = MaxWorkerParticles
    /\ pc.worker.writes >= 9
    /\ pc.worker.buffers = InitialBuffers(pc.positions, props.num_particles)
    /\ pc.worker.buffers # Stirred(pc.worker.buffers, props.num_particles)

\* C27: once setup has run the entities carry the labels 0 .. n - 1, each
\* exactly once, n the number of initial positions, and num_particles and the
\* length of the positions read back are n; an invocation of update with the
\* worker ready gives every entity positions[label], an index within the
\* buffer, and with the worker not ready changes no transform and writes
\* nothing on the worker.
ReadBackInBounds ==
    [][LET n == Cardinality(DOMAIN pc.positions)
           invoked == pc'.ran = "update"
       IN  /\ particles' # <<>> =>
                 /\ Len(particles') = n
                 /\ \A label \in 0..(n - 1) :
                       Cardinality({k \in DOMAIN particles' :
                                       particles'[k].label = label}) = 1
           /\ props.num_particles = n
           /\ DOMAIN pc'.worker.staging = 0..(n - 1)
           /\ invoked /\ pc.worker.ready =>
                 /\ \A k \in DOMAIN particles :
                       /\ particles[k].label \in DOMAIN pc.worker.staging
                       /\ particles'[k].translation
                             = pc.worker.staging[particles[k].label]
                 /\ pc'.worker.uniforms.num_particles = n
           /\ invoked /\ ~pc.worker.ready =>
                 /\ particles' = particles
                 /\ pc'.worker = pc.worker]_vars

\* update has read back two particles' positions, moved by the passes, each
\* entity from its own slot
ReadBackInBoundsWitness ==
    /\ pc.ran = "update"
    /\ pc.worker.ready
    /\ pc.worker.writes >= 4
    /\ Len(particles) = MaxWorkerParticles
    /\ particles[1].translation = pc.worker.staging[0]
    /\ particles[2].translation = pc.worker.staging[1]
    /\ pc.worker.staging[0] # pc.worker.staging[1]
    /\ pc.worker.staging # pc.positions
====
